---- MODULE Spec2Model ----
(***************************************************************************)
(* Model of the artists-collector job orchestrator (ProcessManager,        *)
(* BaseAsyncProcessor, TubeBuddyProcessor) and of the YouTube credential   *)
(* pool (YouTubeService.make_request).                                     *)
(*                                                                         *)
(* Start requests are served by FastAPI worker threads and their           *)
(* background tasks run in thread-pool threads, each with its own          *)
(* processor object; every database query and commit is a separate step,   *)
(* so requests interleave between them.                                    *)
(***************************************************************************)
EXTENDS Integers, Sequences, FiniteSets, TLC

\* ---------------------------------------------------------------- bounds
NProcs == 2          \* concurrent start requests (each owns a processor)
MaxJobs == 2         \* ProcessStatus rows ever created
NArtists == 3        \* artists in the database
BatchRows == 2       \* artists per scoring batch (batch_size, 20 in the code)
MaxRequests == 2     \* cap of each per-key request counter
NKeys == 3           \* YOUTUBE_API_KEY_n entries found in the environment
NTasks == 2          \* scoring coroutines that share one YouTubeService
MaxEntities == 11    \* artists of the long list
NSources == 2        \* sources of sources_config
NThreads == 2        \* threads that call the TrendsService
MaxSources == 20     \* most sources of a configuration
MaxDate == 3         \* latest appearance date of a source item
MaxPasses == 2       \* extraction passes
MaxItems == 2        \* source items that name an artist, in one pass
TicksPerSecond == 2  \* ticks of the clock in a second
MaxTime == 7         \* last tick of the clock
NFound == 2          \* unique_artists of an extraction
MaxSample == 2       \* results in a search sample (max_results, 50 in the code)
LogScale == 4096     \* fixed-point unit of the logarithm
LogBits == 10        \* binary digits computed of a logarithm

Procs == 1..NProcs
Artists == 1..NArtists

\* rows of the artists table: the artists above, which are active, and one
\* row with is_active = False
ArtistRows == 1..(NArtists + 1)
is_active == [a \in ArtistRows |-> a \in Artists]
Keys == 1..NKeys
Tasks == 1..NTasks

\* str(e) of an exception raised inside execute_process
Messages == {"", "boom"}
NoMessage == "<null>"

VARIABLES
  \* --- database
  jobs,             \* process_status table: sequence of rows, id = index
  needs_scoring,    \* artists.needs_scoring
  scores,           \* number of rows of the scores table per artist_id
  \* --- one start request / processor per p
  pc,               \* position of the request and of its background task
  response,         \* what the route answered to the caller of start
  result,           \* what run_async returned
  current_process,  \* BaseAsyncProcessor.current_process (row id, 0 = None)
  pending,          \* pending_artists of execute_process
  bi,               \* i of the batch loop
  bj,               \* position of _process_batch inside the batch
  completed_count,  \* completed_count of execute_process
  batch_completed,  \* completed of _process_batch
  errors,           \* len(errors) of execute_process
  batch_errors,     \* len(errors) of _process_batch
  broke,            \* the processor took a "status != running" break
  quota_break,      \* the processor took the quota break of line 190
  \* --- YouTubeService
  mode,             \* YOUTUBE_MODE
  exhausted_keys,
  current_key_index,
  requests_per_key,
  cache,            \* cache keys that have a file in cache_dir
  last_key,         \* upstream: key of the last request received
  last_status,      \* upstream: status answered to it
  mr_pc,            \* position of the make_request call in progress
  mr_caller,        \* the coroutine that made it
  mr_params,        \* its params (the caller's dict)
  mr_endpoint,
  mr_available,     \* available_keys computed at line 184
  mr_attempt,       \* attempt of the retry loop
  mr_requests,      \* upstream requests issued by the call
  mr_result,        \* how the call ended
  \* --- POST /scoring/calculate-pending
  cp_pc,            \* position of the request
  cp_queue,         \* artists_to_score not yet visited by the loop
  cp_processed,     \* processed_count
  \* --- CacheService and its Redis store
  redis_client,     \* CacheService.redis_client ("None" when the ping failed)
  redis,            \* the store: per key, the entry written by setex and its age
  cs_last,          \* the last cache operation and what it returned
  \* --- status queries
  status_reply,     \* the last status query and what it returned
  \* --- ScoringService
  sc_in,            \* the inputs of the last scoring call
  sc_out,           \* what it returned
  \* --- SourceExtractor
  ex_title,         \* the text given to the extraction, as its tokens
  ex_artists,       \* the names it returned
  \* --- TubeBuddyProcessor on a long list of artists
  tb,               \* the locals of execute_process and _process_batch
  \* --- Phase1Processor / Phase2Processor
  ph,               \* the extraction that the processor runs
  \* --- background tasks of the dashboard and scoring routes
  background,       \* per route, the task that it queued and its snapshot
  \* --- TrendsService and its provider
  trends,           \* the clock, _last_request_time, the calls in progress
  \* --- SourceExtractor, the passes over the sources
  xp                \* the artists table and the pass in progress

jobVars == <<jobs, needs_scoring, scores, pc, response, result,
             current_process, pending, bi, bj, completed_count,
             batch_completed, errors, batch_errors, broke,
             quota_break>>
poolVars == <<mode, exhausted_keys, current_key_index, requests_per_key,
              cache, last_key, last_status, mr_pc, mr_caller,
              mr_params, mr_endpoint, mr_available, mr_attempt, mr_requests, mr_result>>
pendingVars == <<cp_pc, cp_queue, cp_processed>>
cacheVars == <<redis_client, redis, cs_last>>
statusVars == <<status_reply>>
scoreVars == <<sc_in, sc_out>>
extractVars == <<ex_title, ex_artists>>
batchVars == <<tb, ph, background, trends, xp>>
vars == <<jobVars, poolVars, pendingVars, cacheVars, statusVars, scoreVars, extractVars, batchVars>>

Min(a, b) == IF a < b THEN a ELSE b

\* ------------------------------------------------------- ProcessStatus
Terminal == {"completed", "error", "cancelled"}

\* ProcessStatus.get_running_process: status == "running" and is_active
RunningIds(js) ==
  {id \in DOMAIN js : js[id].status = "running" /\ js[id].is_active}

has_running_process(js) == RunningIds(js) # {}

\* row built by ProcessManager.start_process
NewProcess(ptype, total) ==
  [process_type |-> ptype, status |-> "running",
   progress_percentage |-> 0, current_step |-> "Initialisation...",
   current_source |-> 0,
   sources_processed |-> 0, total_sources |-> total,
   artists_processed |-> 0, errors_count |-> 0,
   error_message |-> NoMessage, completed_at |-> FALSE, is_active |-> TRUE]

\* the pairs (sources_processed, total_sources), totals up to 100, for
\* which the double (sources_processed / total_sources) * 100 falls just
\* below the exact quotient: 29 / 50 * 100 is 57.99999999999999
FloatShortfall == {<<29, 50>>, <<29, 100>>, <<57, 100>>, <<58, 100>>}

\* int((sources_processed / total_sources) * 100) in float arithmetic
float_percent(sp, ts) ==
  LET exact == (sp * 100) \div ts
  IN IF <<sp, ts>> \in FloatShortfall THEN exact - 1 ELSE exact

\* ProcessStatus.update_progress(**kwargs): kw maps the supplied fields;
\* a key that is no attribute of the row is skipped
update_progress(row, kw) ==
  LET merged == [f \in DOMAIN row |->
                   IF f \in DOMAIN kw THEN kw[f] ELSE row[f]]
  IN IF merged.total_sources > 0
       THEN [merged EXCEPT !.progress_percentage =
               Min(100, float_percent(merged.sources_processed,
                                      merged.total_sources))]
       ELSE merged

\* ProcessStatus.complete(result_data, error_message); msg = NoMessage
\* stands for error_message=None
complete(row, msg) ==
  LET base == [row EXCEPT !.completed_at = TRUE,
                          !.progress_percentage = 100,
                          !.is_active = FALSE]
  IN IF msg # NoMessage /\ msg # ""
       THEN [base EXCEPT !.status = "error", !.error_message = msg,
                         !.current_step = "Erreur"]
       ELSE [base EXCEPT !.status = "completed",
                         !.current_step = "Termine"]

\* ProcessManager.cancel_process: the two assignments
cancel_process(row) ==
  [row EXCEPT !.status = "cancelled", !.current_step = "Annule"]

\* ArtistService.get_artists_needing_scoring, in id order
RECURSIVE SortedSeq(_)
RECURSIVE Pow10(_)
RECURSIVE Magnitude(_)
RECURSIVE LogFraction(_, _, _)
RECURSIVE SumSeq(_)
RECURSIVE NameText(_)
RECURSIVE SplitFrom(_, _, _, _)
RECURSIVE BracketedFrom(_, _, _, _)
RECURSIVE UnbracketedFrom(_, _)
SortedSeq(S) ==
  IF S = {} THEN <<>>
  ELSE LET m == CHOOSE x \in S : \A y \in S : x <= y
       IN <<m>> \o SortedSeq(S \ {m})

\* faulty variant (sensitivity of the properties): every active artist is
\* returned, whatever its flag
get_artists_needing_scoring_all(ns) ==
  SortedSeq({a \in ArtistRows : is_active[a]})

get_artists_needing_scoring(ns) ==
  SortedSeq({a \in ArtistRows : ns[a] /\ is_active[a]})

count_artists_needing_scoring(ns) ==
  Cardinality({a \in ArtistRows : ns[a] /\ is_active[a]})


\* ----------------------------------------------------- start of a job
NoResult == [returned |-> FALSE, success |-> FALSE, error |-> NoMessage,
             process_id |-> 0]

InFlightStarts == Cardinality({q \in Procs : pc[q] \in {"queued", "starting", "inserting"}})

\* a new TubeBuddyProcessor object
FreshProcessor(p) ==
  /\ current_process' = [current_process EXCEPT ![p] = 0]
  /\ pending' = [pending EXCEPT ![p] = <<>>]
  /\ bi' = [bi EXCEPT ![p] = 0]
  /\ bj' = [bj EXCEPT ![p] = 0]
  /\ completed_count' = [completed_count EXCEPT ![p] = 0]
  /\ batch_completed' = [batch_completed EXCEPT ![p] = 0]
  /\ errors' = [errors EXCEPT ![p] = 0]
  /\ batch_errors' = [batch_errors EXCEPT ![p] = 0]
  /\ broke' = [broke EXCEPT ![p] = FALSE]
  /\ quota_break' = [quota_break EXCEPT ![p] = FALSE]
  /\ result' = [result EXCEPT ![p] = NoResult]

procLocals == <<current_process, pending, bi, bj, completed_count,
                batch_completed, errors, batch_errors, broke,
                quota_break, result>>

\* POST /extraction/resume-tubebuddy: 409 when a job is running, else the
\* task is queued and the caller is told "started"
resume_tubebuddy_background(p) ==
  /\ pc[p] \in {"idle", "done"}
  /\ Len(jobs) + InFlightStarts < MaxJobs
  /\ FreshProcessor(p)
  /\ IF has_running_process(jobs)
       THEN /\ response' = [response EXCEPT ![p] = "409"]
            /\ pc' = [pc EXCEPT ![p] = "done"]
       ELSE /\ response' = [response EXCEPT ![p] = "started"]
            /\ pc' = [pc EXCEPT ![p] = "queued"]
  /\ UNCHANGED <<jobs, needs_scoring, scores, poolVars, pendingVars, cacheVars, statusVars, scoreVars, extractVars, batchVars>>

\* result returned by the except branch of run_async
Failure(p, msg, id) ==
  [returned |-> TRUE, success |-> FALSE, error |-> msg, process_id |-> id]

\* run_async, lines 73-78: the except branch marks the row that
\* self.current_process names, when it names one
ExceptMarks(p, msg) ==
  jobs' = IF current_process[p] # 0
            THEN [jobs EXCEPT ![current_process[p]] = complete(@, msg)]
            ELSE jobs

\* run_async called once more on a processor object that has run a job:
\* self.current_process still names that job
run_async_again(p) ==
  /\ pc[p] = "done"
  /\ current_process[p] # 0
  /\ has_running_process(jobs) \/ Len(jobs) + InFlightStarts < MaxJobs
  /\ pending' = [pending EXCEPT ![p] = <<>>]
  /\ bi' = [bi EXCEPT ![p] = 0]
  /\ bj' = [bj EXCEPT ![p] = 0]
  /\ completed_count' = [completed_count EXCEPT ![p] = 0]
  /\ batch_completed' = [batch_completed EXCEPT ![p] = 0]
  /\ errors' = [errors EXCEPT ![p] = 0]
  /\ batch_errors' = [batch_errors EXCEPT ![p] = 0]
  /\ broke' = [broke EXCEPT ![p] = FALSE]
  /\ quota_break' = [quota_break EXCEPT ![p] = FALSE]
  /\ result' = [result EXCEPT ![p] = NoResult]
  /\ pc' = [pc EXCEPT ![p] = "queued"]
  /\ UNCHANGED <<jobs, needs_scoring, scores, response, current_process,
                 poolVars, pendingVars, cacheVars, statusVars, scoreVars,
                 extractVars, batchVars>>

\* run_async, lines 41-45: the processor's own check
run_async_check(p) ==
  /\ pc[p] = "queued"
  /\ IF has_running_process(jobs)
       THEN /\ result' = [result EXCEPT ![p] =
                            Failure(p, "deja en cours", current_process[p])]
            /\ ExceptMarks(p, "deja en cours")
            /\ pc' = [pc EXCEPT ![p] = "done"]
       ELSE /\ pc' = [pc EXCEPT ![p] = "starting"]
            /\ UNCHANGED <<result, jobs>>
  /\ UNCHANGED <<needs_scoring, scores, response, current_process,
                 pending, bi, bj, completed_count, batch_completed, errors,
                 batch_errors, broke, quota_break, poolVars, pendingVars, cacheVars, statusVars, scoreVars, extractVars, batchVars>>

\* ProcessManager.start_process, lines 19-22: the query of the check
start_process_check(p) ==
  /\ pc[p] = "starting"
  /\ IF has_running_process(jobs)
       THEN /\ result' = [result EXCEPT ![p] =
                            Failure(p, "deja en cours", current_process[p])]
            /\ ExceptMarks(p, "deja en cours")
            /\ pc' = [pc EXCEPT ![p] = "done"]
       ELSE /\ pc' = [pc EXCEPT ![p] = "inserting"]
            /\ UNCHANGED <<result, jobs>>
  /\ UNCHANGED <<needs_scoring, scores, response, current_process,
                 pending, bi, bj, completed_count, batch_completed, errors,
                 batch_errors, broke, quota_break, poolVars, pendingVars, cacheVars, statusVars, scoreVars, extractVars, batchVars>>

\* ProcessManager.start_process, lines 24-43: insert the row and commit
start_process_insert(p) ==
  /\ pc[p] = "inserting"
  /\ Len(jobs) < MaxJobs
  /\ jobs' = Append(jobs,
        NewProcess("tubebuddy", count_artists_needing_scoring(needs_scoring)))
  /\ current_process' = [current_process EXCEPT ![p] = Len(jobs) + 1]
  /\ pc' = [pc EXCEPT ![p] = "exec_init"]
  /\ UNCHANGED <<needs_scoring, scores, response, result, pending, bi, bj,
                 completed_count, batch_completed, errors, batch_errors,
                 broke, quota_break, poolVars, pendingVars, cacheVars, statusVars, scoreVars, extractVars, batchVars>>

\* ProcessManager.update_progress on the processor's row
Progress(p, kw) ==
  jobs' = [jobs EXCEPT ![current_process[p]] = update_progress(@, kw)]

\* faulty variant (sensitivity of the properties): the processor never looks at the status of its job
ShouldStop_never(p) == FALSE

\* refresh_process_status followed by the test of lines 66 / 129
ShouldStop(p) == jobs[current_process[p]].status # "running"

\* ---------------------------------------- TubeBuddyProcessor.execute_process
\* lines 32-56: read the pending artists, publish the total
execute_init(p) ==
  /\ pc[p] = "exec_init"
  /\ LET pa == get_artists_needing_scoring(needs_scoring)
     IN /\ pending' = [pending EXCEPT ![p] = pa]
        /\ IF pa = <<>>
             THEN /\ Progress(p, [current_step |-> "Aucun artiste"])
                  /\ pc' = [pc EXCEPT ![p] = "complete"]
             ELSE /\ Progress(p, [total_sources |-> Len(pa),
                                  current_step |-> "Calcul des scores"])
                  /\ pc' = [pc EXCEPT ![p] = "batch_poll"]
  /\ bi' = [bi EXCEPT ![p] = 0]
  /\ UNCHANGED <<needs_scoring, scores, response, result, current_process,
                 bj, completed_count, batch_completed, errors, batch_errors,
                 broke, quota_break, poolVars, pendingVars, cacheVars, statusVars, scoreVars, extractVars, batchVars>>

\* lines 63-74: head of the batch loop
batch_poll(p) ==
  /\ pc[p] = "batch_poll"
  /\ IF bi[p] >= Len(pending[p])
       THEN /\ pc' = [pc EXCEPT ![p] = "finish"]
            /\ UNCHANGED <<jobs, broke, bj, batch_completed, batch_errors>>
       ELSE IF ShouldStop(p)
         THEN /\ broke' = [broke EXCEPT ![p] = TRUE]
              /\ pc' = [pc EXCEPT ![p] = "finish"]
              /\ UNCHANGED <<jobs, bj, batch_completed, batch_errors>>
         ELSE /\ Progress(p, [current_step |-> "Traitement batch"])
              /\ bj' = [bj EXCEPT ![p] = 0]
              /\ batch_completed' = [batch_completed EXCEPT ![p] = 0]
              /\ batch_errors' = [batch_errors EXCEPT ![p] = 0]
              /\ pc' = [pc EXCEPT ![p] = "entity_poll"]
              /\ UNCHANGED broke
  /\ UNCHANGED <<needs_scoring, scores, response, result, current_process,
                 pending, bi, completed_count, errors, quota_break, poolVars, pendingVars, cacheVars, statusVars, scoreVars, extractVars, batchVars>>

BatchLen(p) == Min(BatchRows, Len(pending[p]) - bi[p])
CurrentArtist(p) == pending[p][bi[p] + bj[p] + 1]

\* _process_batch, lines 125-134: head of the artist loop
entity_poll(p) ==
  /\ pc[p] = "entity_poll"
  /\ IF bj[p] >= BatchLen(p)
       THEN /\ pc' = [pc EXCEPT ![p] = "batch_end"]
            /\ UNCHANGED <<jobs, broke>>
       ELSE IF ShouldStop(p)
         THEN /\ broke' = [broke EXCEPT ![p] = TRUE]
              /\ pc' = [pc EXCEPT ![p] = "batch_end"]
              /\ UNCHANGED jobs
         ELSE /\ Progress(p, [current_source |-> CurrentArtist(p)])
              /\ pc' = [pc EXCEPT ![p] = "scoring"]
              /\ UNCHANGED broke
  /\ UNCHANGED <<needs_scoring, scores, response, result, current_process,
                 pending, bi, bj, completed_count, batch_completed, errors,
                 batch_errors, quota_break, poolVars, pendingVars, cacheVars, statusVars, scoreVars, extractVars, batchVars>>

\* what ScoringService.calculate_tubebuddy_score can do: return a score,
\* return a dict with "error", raise, raise with "quota" in the message
ScoreOutcomes == {"score", "error", "raise", "raise_quota"}

\* _process_batch, lines 136-190: score one artist
score_artist(p, outcome) ==
  /\ pc[p] = "scoring"
  /\ LET a == CurrentArtist(p)
     IN CASE outcome = "score" ->
               /\ scores' = [scores EXCEPT ![a] = @ + 1]
               /\ needs_scoring' = [needs_scoring EXCEPT ![a] = FALSE]
               /\ batch_completed' = [batch_completed EXCEPT ![p] = @ + 1]
               /\ bj' = [bj EXCEPT ![p] = @ + 1]
               /\ pc' = [pc EXCEPT ![p] = "entity_poll"]
               /\ UNCHANGED <<batch_errors, quota_break>>
          [] outcome \in {"error", "raise"} ->
               /\ batch_errors' = [batch_errors EXCEPT ![p] = @ + 1]
               /\ bj' = [bj EXCEPT ![p] = @ + 1]
               /\ pc' = [pc EXCEPT ![p] = "entity_poll"]
               /\ UNCHANGED <<scores, needs_scoring, batch_completed,
                              quota_break>>
          [] outcome = "raise_quota" ->
               /\ batch_errors' = [batch_errors EXCEPT ![p] = @ + 1]
               /\ quota_break' = [quota_break EXCEPT ![p] = TRUE]
               /\ pc' = [pc EXCEPT ![p] = "batch_end"]
               /\ UNCHANGED <<scores, needs_scoring, batch_completed, bj>>
  /\ UNCHANGED <<jobs, response, result, current_process, pending, bi,
                 completed_count, errors, broke, poolVars, pendingVars, cacheVars, statusVars, scoreVars, extractVars, batchVars>>

\* lines 81-94: _process_batch returned; fold its counts into the totals
\* and publish them
batch_end(p) ==
  /\ pc[p] = "batch_end"
  /\ completed_count' = [completed_count EXCEPT ![p] = @ + batch_completed[p]]
  /\ errors' = [errors EXCEPT ![p] = @ + batch_errors[p]]
  /\ Progress(p, [sources_processed |->
                     Min(bi[p] + BatchRows, Len(pending[p])),
                  artists_processed |-> completed_count'[p],
                  errors_count |-> errors'[p]])
  /\ bi' = [bi EXCEPT ![p] = @ + BatchRows]
  /\ bj' = [bj EXCEPT ![p] = 0]
  /\ batch_completed' = [batch_completed EXCEPT ![p] = 0]
  /\ batch_errors' = [batch_errors EXCEPT ![p] = 0]
  /\ pc' = [pc EXCEPT ![p] = "batch_poll"]
  /\ UNCHANGED <<needs_scoring, scores, response, result, current_process,
                 pending, broke, quota_break, poolVars, pendingVars, cacheVars, statusVars, scoreVars, extractVars, batchVars>>

\* lines 96-113: last label, build the result
execute_finish(p) ==
  /\ pc[p] = "finish"
  /\ Progress(p, [current_step |-> "Scoring termine"])
  /\ pc' = [pc EXCEPT ![p] = "complete"]
  /\ UNCHANGED <<needs_scoring, scores, response, result, current_process,
                 pending, bi, bj, completed_count, batch_completed, errors,
                 batch_errors, broke, quota_break, poolVars, pendingVars, cacheVars, statusVars, scoreVars, extractVars, batchVars>>

\* the locals of execute_process and _process_batch end with the call
FrameDropped(p) ==
  /\ pending' = [pending EXCEPT ![p] = <<>>]
  /\ bi' = [bi EXCEPT ![p] = 0]
  /\ bj' = [bj EXCEPT ![p] = 0]
  /\ batch_completed' = [batch_completed EXCEPT ![p] = 0]
  /\ batch_errors' = [batch_errors EXCEPT ![p] = 0]

ExecPcs == {"exec_init", "batch_poll", "entity_poll", "scoring",
            "batch_end", "finish"}

\* run_async, lines 53-67: execute_process returned
run_async_complete(p) ==
  /\ pc[p] = "complete"
  /\ jobs' = [jobs EXCEPT ![current_process[p]] = complete(@, NoMessage)]
  /\ result' = [result EXCEPT ![p] =
       [returned |-> TRUE, success |-> TRUE, error |-> NoMessage,
        process_id |-> current_process[p]]]
  /\ pc' = [pc EXCEPT ![p] = "done"]
  /\ FrameDropped(p)
  /\ UNCHANGED <<needs_scoring, scores, response, current_process,
                 completed_count, errors, broke, quota_break, poolVars, pendingVars, cacheVars, statusVars, scoreVars, extractVars, batchVars>>

\* run_async, lines 69-85: execute_process raised an exception whose
\* str() is msg
run_async_except(p, msg) ==
  /\ pc[p] \in ExecPcs
  /\ jobs' = [jobs EXCEPT ![current_process[p]] = complete(@, msg)]
  /\ result' = [result EXCEPT ![p] = Failure(p, msg, current_process[p])]
  /\ pc' = [pc EXCEPT ![p] = "done"]
  /\ FrameDropped(p)
  /\ UNCHANGED <<needs_scoring, scores, response, current_process,
                 completed_count, errors, broke, quota_break, poolVars, pendingVars, cacheVars, statusVars, scoreVars, extractVars, batchVars>>

\* POST /extraction/cancel/{id} -> ProcessManager.cancel_process.  The
\* method assigns without committing; the step below is the outcome in
\* which the request's session writes the row, the other outcome (the
\* assignment is dropped with the session) leaves the state unchanged.
cancel_route(id) ==
  /\ id \in DOMAIN jobs
  /\ jobs' = [jobs EXCEPT ![id] = cancel_process(@)]
  /\ UNCHANGED <<needs_scoring, scores, pc, response, procLocals, poolVars, pendingVars, cacheVars, statusVars, scoreVars, extractVars, batchVars>>

JobsNext ==
  \/ \E p \in Procs : resume_tubebuddy_background(p)
  \/ \E p \in Procs : run_async_check(p)
  \/ \E p \in Procs : start_process_check(p)
  \/ \E p \in Procs : start_process_insert(p)
  \/ \E p \in Procs : execute_init(p)
  \/ \E p \in Procs : batch_poll(p)
  \/ \E p \in Procs : entity_poll(p)
  \/ \E p \in Procs, o \in ScoreOutcomes : score_artist(p, o)
  \/ \E p \in Procs : batch_end(p)
  \/ \E p \in Procs : execute_finish(p)
  \/ \E p \in Procs : run_async_complete(p)
  \/ \E p \in Procs, m \in Messages : run_async_except(p, m)
  \/ \E id \in 1..MaxJobs : cancel_route(id)

JobsInit ==
  /\ jobs = <<>>
  /\ needs_scoring = [a \in ArtistRows |-> TRUE]
  /\ scores = [a \in ArtistRows |-> 0]
  /\ pc = [p \in Procs |-> "idle"]
  /\ response = [p \in Procs |-> "none"]
  /\ result = [p \in Procs |-> NoResult]
  /\ current_process = [p \in Procs |-> 0]
  /\ pending = [p \in Procs |-> <<>>]
  /\ bi = [p \in Procs |-> 0]
  /\ bj = [p \in Procs |-> 0]
  /\ completed_count = [p \in Procs |-> 0]
  /\ batch_completed = [p \in Procs |-> 0]
  /\ errors = [p \in Procs |-> 0]
  /\ batch_errors = [p \in Procs |-> 0]
  /\ broke = [p \in Procs |-> FALSE]
  /\ quota_break = [p \in Procs |-> FALSE]

\* -------------------------------------------------------- YouTubeService
Endpoints == {"search"}
ChannelIds == {"none", "UCx"}
NoKey == 0

\* params of a request; key is the "key" entry make_request adds
Params == [q : {"a"}, channelId : ChannelIds, key : {NoKey} \cup Keys]

\* the dict a caller builds: no "key" entry yet
FreshParams == {pr \in Params : pr.key = NoKey}

\* _get_cache_key: the "key" entry is dropped; a channel search is named
\* after its channel only, anything else after endpoint and params
CacheKey(endpoint, params) ==
  IF endpoint = "search" /\ params.channelId # "none"
    THEN [kind |-> "channel", endpoint |-> "search", q |-> "-",
          channelId |-> params.channelId]
    ELSE [kind |-> "hash", endpoint |-> endpoint, q |-> params.q,
          channelId |-> params.channelId]

CacheKeys == {CacheKey(e, pr) : e \in Endpoints, pr \in Params}

\* get_available_keys, in api_keys order
\* faulty variant (sensitivity of the properties): the flagged keys count
\* as available
get_available_keys_all(ex) == SortedSeq(Keys)

get_available_keys(ex) == SortedSeq({k \in Keys : k \notin ex})

\* first key that is not exhausted, searching from idx and wrapping
\* (the for loop of get_next_available_key_index and of rotate_api_key);
\* 0 stands for None
NextFrom(ex, idx) ==
  LET cand == {i \in 0..(NKeys - 1) : (((idx - 1 + i) % NKeys) + 1) \notin ex}
  IN IF cand = {} THEN 0
     ELSE LET i == CHOOSE x \in cand : \A y \in cand : x <= y
          IN ((idx - 1 + i) % NKeys) + 1

get_next_available_key_index(ex, idx) ==
  IF get_available_keys(ex) = <<>> THEN 0 ELSE NextFrom(ex, idx)

\* faulty variant (sensitivity of the properties): when marking leaves no key, the set of exhausted keys is
\* emptied and the rotation wraps to the next key
rotate_api_key_wraps(ex, idx, mark) ==
  LET ex2 == IF mark THEN ex \cup {idx} ELSE ex
  IN IF {k \in Keys : k \notin ex2} = {}
       THEN [exhausted_keys |-> {}, current_key_index |-> (idx % NKeys) + 1]
       ELSE [exhausted_keys |-> ex2,
             current_key_index |-> NextFrom(ex2, idx)]

\* rotate_api_key(mark_current_exhausted): the new exhausted_keys and
\* current_key_index
rotate_api_key(ex, idx, mark) ==
  LET ex2 == IF mark THEN ex \cup {idx} ELSE ex
      nxt == IF {k \in Keys : k \notin ex2} = {} THEN 0 ELSE NextFrom(ex2, idx)
  IN [exhausted_keys |-> ex2,
      current_key_index |-> IF nxt # 0 THEN nxt ELSE idx]

callVars == <<mr_pc, mr_caller, mr_params, mr_endpoint, mr_available, mr_attempt,
              mr_requests, mr_result>>
upstreamVars == <<last_key, last_status>>

\* faulty variant (sensitivity of the properties): with no key available the call forgets the flags and starts
\* over with the whole pool
make_request_begin_renews(endpoint, params) ==
  /\ mr_pc = "idle"
  /\ \A k \in Keys : requests_per_key[k] < MaxRequests
  /\ mr_endpoint' = endpoint
  /\ mr_params' = params
  /\ mr_attempt' = 0
  /\ mr_requests' = 0
  /\ IF mode = "MOCK"
       THEN /\ mr_result' = IF CacheKey(endpoint, params) \in cache
                              THEN "cached" ELSE "None"
            /\ UNCHANGED <<mr_pc, mr_available, current_key_index,
                           exhausted_keys>>
       ELSE LET renewed == IF get_available_keys(exhausted_keys) = <<>>
                             THEN {} ELSE exhausted_keys
            IN /\ exhausted_keys' = renewed
               /\ mr_result' = "none"
               /\ mr_pc' = "loop"
               /\ mr_available' = get_available_keys(renewed)
               /\ current_key_index' =
                    IF current_key_index \in renewed
                      THEN NextFrom(renewed, current_key_index)
                      ELSE current_key_index
  /\ UNCHANGED <<mode, requests_per_key, cache, upstreamVars, jobVars, pendingVars, cacheVars, statusVars, scoreVars, extractVars, batchVars>>

\* make_request, lines 168-203: cache key, MOCK branch, available keys,
\* move off an exhausted current key
make_request_begin(endpoint, params) ==
  /\ mr_pc = "idle"
  /\ \A k \in Keys : requests_per_key[k] < MaxRequests
  /\ mr_endpoint' = endpoint
  /\ mr_params' = params
  /\ mr_attempt' = 0
  /\ mr_requests' = 0
  /\ IF mode = "MOCK"
       THEN /\ mr_result' = IF CacheKey(endpoint, params) \in cache
                              THEN "cached" ELSE "None"
            /\ UNCHANGED <<mr_pc, mr_available, current_key_index>>
       ELSE LET available == get_available_keys(exhausted_keys)
            IN IF available = <<>>
                 THEN /\ mr_result' = "quota_error"
                      /\ UNCHANGED <<mr_pc, mr_available, current_key_index>>
                 ELSE /\ mr_result' = "none"
                      /\ mr_pc' = "loop"
                      /\ mr_available' = available
                      /\ current_key_index' =
                           IF current_key_index \in exhausted_keys
                             THEN LET n == get_next_available_key_index(
                                             exhausted_keys, current_key_index)
                                  IN IF n # 0 THEN n ELSE current_key_index
                             ELSE current_key_index
  /\ UNCHANGED <<mode, exhausted_keys, requests_per_key, cache, upstreamVars,
                 jobVars, pendingVars, cacheVars, statusVars, scoreVars, extractVars, batchVars>>

\* faulty variant (sensitivity of the properties): the pointer was advanced
\* by another call between the rejection and the marking, so the key
\* after the rejected one gets the flag
Rotated_unserialized(mark) ==
  LET moved == (current_key_index % NKeys) + 1
      r == rotate_api_key(exhausted_keys, moved, mark)
  IN /\ exhausted_keys' = r.exhausted_keys
     /\ current_key_index' = r.current_key_index

Rotated(mark) ==
  LET r == rotate_api_key(exhausted_keys, current_key_index, mark)
  IN /\ exhausted_keys' = r.exhausted_keys
     /\ current_key_index' = r.current_key_index

\* answers of the upstream API: a status, or -1 when requests.get raises
Statuses == {200, 403, 500, -1}

\* a make_request call by one of the coroutines gathered by
\* batch_score_artists on the event loop; the function never awaits, so
\* the call in progress ends before another coroutine runs
make_request(t, endpoint, params) ==
  /\ make_request_begin(endpoint, params)
  /\ mr_caller' = t

\* make_request, lines 205-258: one pass of the retry loop
make_request_attempt(status) ==
  /\ mr_pc = "loop"
  /\ mr_attempt < Len(mr_available)
  /\ mr_attempt' = mr_attempt + 1
  /\ LET current_key == current_key_index
     IN IF current_key \in exhausted_keys
          THEN \* lines 209-212: forced rotation, no request
               /\ status = 200
               /\ Rotated(FALSE)
               /\ UNCHANGED <<mr_pc, mr_params, mr_requests, mr_result,
                              requests_per_key, cache, upstreamVars>>
          ELSE /\ mr_params' = [mr_params EXCEPT !.key = current_key]
               /\ mr_requests' = mr_requests + 1
               /\ last_key' = current_key
               /\ last_status' = status
               /\ CASE status = 200 ->
                         /\ requests_per_key' =
                              [requests_per_key EXCEPT ![current_key] = @ + 1]
                         \* lines 225-228: _save_to_cache writes the
                         \* file, or raises and the error is only logged
                         /\ cache' \in
                              {cache \cup {CacheKey(mr_endpoint, mr_params)},
                               cache}
                         /\ mr_result' = "response"
                         /\ mr_pc' = "idle"
                         /\ UNCHANGED <<exhausted_keys, current_key_index>>
                    [] status = 403 ->
                         \* the raise of line 241 is inside the try block:
                         \* the except of line 255 catches it and rotates
                         /\ Rotated({mr_available[i] :
                                       i \in DOMAIN mr_available}
                                     \ {current_key} # {})
                         /\ UNCHANGED <<requests_per_key, cache, mr_result,
                                        mr_pc>>
                    [] status = 500 ->
                         /\ mr_result' = "None"
                         /\ mr_pc' = "idle"
                         /\ UNCHANGED <<exhausted_keys, current_key_index,
                                        requests_per_key, cache>>
                    [] status = -1 ->
                         /\ Rotated(FALSE)
                         /\ UNCHANGED <<requests_per_key, cache, mr_result,
                                        mr_pc>>
  /\ UNCHANGED <<mode, mr_caller, mr_endpoint, mr_available, jobVars, pendingVars, cacheVars, statusVars, scoreVars, extractVars, batchVars>>

\* make_request, lines 260-263: the loop ran out of attempts
make_request_give_up ==
  /\ mr_pc = "loop"
  /\ mr_attempt >= Len(mr_available)
  /\ mr_result' = "quota_error"
  /\ mr_pc' = "idle"
  /\ UNCHANGED <<mode, exhausted_keys, current_key_index, requests_per_key,
                 cache, upstreamVars, mr_caller, mr_params, mr_endpoint,
                 mr_available, mr_attempt, mr_requests, jobVars, pendingVars, cacheVars, statusVars, scoreVars, extractVars, batchVars>>

\* the reset of the exhausted keys that the extraction routes call on the
\* service (reset_quota / reset_exhausted_keys)
reset_quota ==
  /\ mr_pc = "idle"
  /\ mode = "LIVE"
  /\ exhausted_keys # {}
  /\ exhausted_keys' = {}
  /\ UNCHANGED <<mode, current_key_index, requests_per_key, cache,
                 upstreamVars, callVars, jobVars, pendingVars, cacheVars, statusVars, scoreVars, extractVars, batchVars>>

\* faulty variant (sensitivity of the properties): only the counter of the
\* current key is reported
get_quota_usage_current(per_key, current) ==
  [current_key_index |-> current,
   requests_per_key |-> per_key,
   total_requests |-> per_key[current]]

\* get_quota_usage, the fields about the requests
get_quota_usage(per_key, current) ==
  LET RECURSIVE SumTo(_)
      SumTo(k) == IF k = 0 THEN 0 ELSE per_key[k] + SumTo(k - 1)
  IN [current_key_index |-> current,
      requests_per_key |-> per_key,
      total_requests |-> SumTo(NKeys)]

PoolNext ==
  \/ \E t \in Tasks, e \in Endpoints, pr \in FreshParams :
       make_request(t, e, pr)
  \/ \E st \in Statuses : make_request_attempt(st)
  \/ make_request_give_up
  \/ reset_quota

\* YouTubeService.__init__; cache_dir may hold files of earlier runs
PoolInit ==
  /\ mode \in {"LIVE", "MOCK"}
  /\ exhausted_keys = {}
  /\ current_key_index = 1
  /\ requests_per_key = [k \in Keys |-> 0]
  /\ cache \in SUBSET CacheKeys
  /\ last_key = NoKey
  /\ last_status = 0
  /\ mr_pc = "idle"
  /\ mr_caller = 1
  /\ mr_params = [q |-> "a", channelId |-> "none", key |-> NoKey]
  /\ mr_endpoint = "search"
  /\ mr_available = <<>>
  /\ mr_attempt = 0
  /\ mr_requests = 0
  /\ mr_result = "none"

\* ------------------------------------ POST /scoring/calculate-pending
\* CollectionScheduler._calculate_and_save_score on the scores table sc:
\* artist_data has no 'name' entry, so line 94 raises KeyError before any
\* write; the except of lines 112-113 logs it and the method returns None
calculate_and_save_score(sc, a) == sc

\* the limit query parameter
Limits == 1..(NArtists + 1)

\* lines 159-166: the rows with needs_scoring, whatever is_active, in the
\* order of the query (taken here as id order), cut at limit
artists_to_score(ns, limit) ==
  LET all == SortedSeq({a \in ArtistRows : ns[a]})
  IN SubSeq(all, 1, Min(limit, Len(all)))

processVars == <<jobs, pc, response, procLocals>>

\* lines 151-178: the query; with nothing to score the route answers at once
calculate_pending_scores(limit) ==
  /\ cp_pc = "idle"
  /\ cp_queue' = artists_to_score(needs_scoring, limit)
  /\ cp_processed' = 0
  /\ cp_pc' = IF cp_queue' = <<>> THEN "idle" ELSE "loop"
  /\ UNCHANGED <<needs_scoring, scores, processVars, poolVars, cacheVars, statusVars, scoreVars, extractVars, batchVars>>

\* lines 180-196: one artist of the loop
calculate_pending_step ==
  /\ cp_pc = "loop"
  /\ cp_queue # <<>>
  /\ LET a == Head(cp_queue)
     IN /\ scores' = calculate_and_save_score(scores, a)
        /\ needs_scoring' = [needs_scoring EXCEPT ![a] = FALSE]
  /\ cp_processed' = cp_processed + 1
  /\ cp_queue' = Tail(cp_queue)
  /\ UNCHANGED <<cp_pc, processVars, poolVars, cacheVars, statusVars, scoreVars, extractVars, batchVars>>

\* lines 198-204: the answer
calculate_pending_return ==
  /\ cp_pc = "loop"
  /\ cp_queue = <<>>
  /\ cp_pc' = "idle"
  /\ UNCHANGED <<cp_queue, cp_processed, needs_scoring, scores, processVars,
                 poolVars, cacheVars, statusVars, scoreVars, extractVars, batchVars>>

\* SourceExtractor: an existing artist appears in newly extracted content
artist_reappears(a) ==
  /\ ~needs_scoring[a]
  /\ needs_scoring' = [needs_scoring EXCEPT ![a] = TRUE]
  /\ UNCHANGED <<scores, processVars, poolVars, pendingVars, cacheVars, statusVars, scoreVars, extractVars, batchVars>>

PendingNext ==
  \/ \E limit \in Limits : calculate_pending_scores(limit)
  \/ calculate_pending_step
  \/ calculate_pending_return
  \/ \E a \in ArtistRows : artist_reappears(a)

PendingInit ==
  /\ cp_pc = "idle"
  /\ cp_queue = <<>>
  /\ cp_processed = 0

\* ---------------------------------------------------------- CacheService
\* TTL per cache type, in seconds
ttl_config == [search_results |-> 3600, video_stats |-> 24 * 3600,
               channel_stats |-> 7 * 24 * 3600, search_count |-> 6 * 3600]

\* the two cache types that have a get and a put of their own value
CacheTypes == {"search_results", "video_stats"}

\* identifiers passed by the callers, and what lower().replace(' ', '_')
\* makes of them
Identifiers == {"A b", "a_b"}
Normalized == [x \in Identifiers |-> "a_b"]

\* CacheService._get_cache_key
yt_cache_key(cache_type, identifier) == <<cache_type, Normalized[identifier]>>
RedisKeys == {yt_cache_key(c, x) : c \in CacheTypes, x \in Identifiers}

\* values handed to the cache: an empty list or dict, or a payload made of
\* JSON lists, dicts, strings and numbers only, which json.dumps followed
\* by json.loads gives back unchanged
EmptyValue == <<>>
CacheValues == {EmptyValue, <<"v1">>, <<"v2">>}
None == "None"
\* the None a get returns on a miss
Miss == <<"miss">>
NoEntry == [value |-> EmptyValue, ttl |-> 0, age |-> 0]

\* seconds that pass between two operations
Ticks == {1800, 12 * 3600}

\* Redis: an entry lives until its age reaches the ttl given to setex
Expired(entry) == entry # NoEntry /\ entry.age >= entry.ttl

\* faulty variant (sensitivity of the properties): an exception of the
\* Redis client is not caught
CacheGet_unguarded(cache_type, identifier, fault) ==
  LET entry == redis[yt_cache_key(cache_type, identifier)]
  IN IF redis_client = None THEN [returned |-> Miss, raised |-> FALSE]
     ELSE IF fault THEN [returned |-> Miss, raised |-> TRUE]
     ELSE IF entry # NoEntry THEN [returned |-> entry.value, raised |-> FALSE]
     ELSE [returned |-> Miss, raised |-> FALSE]

\* get_search_results / get_video_stats: what the method returns and
\* whether an exception leaves it; fault = redis_client.get or the
\* decoding raises
CacheGet(cache_type, identifier, fault) ==
  LET entry == redis[yt_cache_key(cache_type, identifier)]
  IN IF redis_client = None THEN [returned |-> Miss, raised |-> FALSE]
     ELSE IF fault THEN [returned |-> Miss, raised |-> FALSE]
     ELSE IF entry # NoEntry THEN [returned |-> entry.value, raised |-> FALSE]
     ELSE [returned |-> Miss, raised |-> FALSE]

\* cache_search_results / cache_video_stats: the store after the call;
\* fault = setex raises
CachePut(cache_type, identifier, value, fault) ==
  IF redis_client = None \/ value = EmptyValue THEN redis
  ELSE IF fault THEN redis
  ELSE [redis EXCEPT ![yt_cache_key(cache_type, identifier)] =
          [value |-> value, ttl |-> ttl_config[cache_type], age |-> 0]]

LastOp(op, cache_type, identifier, value, fault, returned, raised) ==
  [op |-> op, cache_type |-> cache_type, identifier |-> identifier,
   value |-> value, fault |-> fault, fault_put |-> FALSE,
   returned |-> returned, raised |-> raised, upstream |-> FALSE]

otherVars == <<jobVars, poolVars, pendingVars, statusVars, scoreVars, extractVars, batchVars>>

\* get_search_results(query) / get_video_stats(video_id)
cache_get(cache_type, identifier, fault) ==
  LET r == CacheGet(cache_type, identifier, fault)
  IN /\ cs_last' = LastOp("get", cache_type, identifier, EmptyValue, fault,
                          r.returned, r.raised)
     /\ UNCHANGED <<redis_client, redis, otherVars>>

get_search_results(query, fault) == cache_get("search_results", query, fault)
get_video_stats(video_id, fault) == cache_get("video_stats", video_id, fault)

\* cache_search_results(query, 50, results) / cache_video_stats(id, stats)
cache_put(cache_type, identifier, value, fault) ==
  /\ redis' = CachePut(cache_type, identifier, value, fault)
  /\ cs_last' = LastOp("put", cache_type, identifier, value, fault, Miss,
                       FALSE)
  /\ UNCHANGED <<redis_client, otherVars>>

cache_search_results(query, results, fault) ==
  cache_put("search_results", query, results, fault)
cache_video_stats(video_id, stats, fault) ==
  cache_put("video_stats", video_id, stats, fault)

\* calculate_artist_score, lines 73-82: the cached search results, or on
\* None the results of the YouTube search, which are then put in the cache
calculate_artist_score_search(query, found, fault_get, fault_put) ==
  LET r == CacheGet("search_results", query, fault_get)
      miss == r.returned = Miss
  IN /\ redis' = IF miss /\ ~r.raised
                   THEN CachePut("search_results", query, found, fault_put)
                   ELSE redis
     /\ cs_last' = [op |-> "aside", cache_type |-> "search_results",
                    identifier |-> query, value |-> found,
                    fault |-> fault_get, fault_put |-> fault_put,
                    returned |-> IF r.raised THEN Miss
                                 ELSE IF miss THEN found ELSE r.returned,
                    raised |-> r.raised,
                    upstream |-> miss /\ ~r.raised]
     /\ UNCHANGED <<redis_client, otherVars>>

\* d seconds pass; Redis drops the entries that reach their ttl
Tick(d) ==
  /\ \E k \in RedisKeys : redis[k] # NoEntry
  /\ redis' = [k \in RedisKeys |->
                 LET aged == [redis[k] EXCEPT !.age = @ + d]
                 IN IF redis[k] = NoEntry \/ Expired(aged)
                      THEN NoEntry ELSE aged]
  /\ cs_last' = LastOp("tick", "search_results", "a_b", EmptyValue, FALSE,
                       Miss, FALSE)
  /\ UNCHANGED <<redis_client, otherVars>>

CacheNext ==
  \/ \E x \in Identifiers, f \in BOOLEAN : get_search_results(x, f)
  \/ \E x \in Identifiers, f \in BOOLEAN : get_video_stats(x, f)
  \/ \E x \in Identifiers, v \in CacheValues, f \in BOOLEAN :
       cache_search_results(x, v, f)
  \/ \E x \in Identifiers, v \in CacheValues, f \in BOOLEAN :
       cache_video_stats(x, v, f)
  \/ \E x \in Identifiers, v \in CacheValues, f1 \in BOOLEAN, f2 \in BOOLEAN :
       calculate_artist_score_search(x, v, f1, f2)
  \/ \E d \in Ticks : Tick(d)

\* ScoringService.__init__: the client, or None when the ping failed
CacheInit ==
  /\ redis_client \in {"client", None}
  /\ redis = [k \in RedisKeys |-> NoEntry]
  /\ cs_last = LastOp("none", "search_results", "a_b", EmptyValue, FALSE,
                      Miss, FALSE)

\* ------------------------------------------------- status of a job
\* what a status query answered: the row it returned (0 when it returned
\* no row) and the status it reported
Reply(op, given, process_id, returned, status) ==
  [op |-> op, given |-> given, process_id |-> process_id,
   returned |-> returned, status |-> status]

\* ProcessManager.get_latest_process(): the first row by started_at
\* descending, started_at being the time of the insert
get_latest_process_oldest(js) == IF js = <<>> THEN 0 ELSE 1

get_latest_process(js) == Len(js)

\* GET /extraction/status: the running process, else the latest one, else
\* "idle".  get_running_process is .first() of an unordered query.
get_extraction_status ==
  /\ IF has_running_process(jobs)
       THEN \E r \in RunningIds(jobs) :
              status_reply' = Reply("get_extraction_status", FALSE, 0, r,
                                    jobs[r].status)
       ELSE LET latest == get_latest_process(jobs)
            IN IF latest # 0
                 THEN status_reply' = Reply("get_extraction_status", FALSE,
                                            0, latest, jobs[latest].status)
                 ELSE status_reply' = Reply("get_extraction_status", FALSE,
                                            0, 0, "idle")
  /\ UNCHANGED <<jobVars, poolVars, pendingVars, cacheVars, scoreVars, extractVars, batchVars>>

\* the ids a caller passes: a row's id, or an id no row has
ProcessIds == 0..(MaxJobs + 1)

\* ProcessManager.get_process_status(process_id): given is FALSE when the
\* argument is left to its default None; "if process_id:" also takes the
\* else branch for 0
get_process_status(given, process_id) ==
  /\ given \/ process_id = 0
  /\ IF given /\ process_id # 0
       THEN IF process_id \in DOMAIN jobs
              THEN status_reply' = Reply("get_process_status", given,
                                         process_id, process_id,
                                         jobs[process_id].status)
              ELSE status_reply' = Reply("get_process_status", given,
                                         process_id, 0, "None")
       ELSE IF has_running_process(jobs)
              THEN \E r \in RunningIds(jobs) :
                     status_reply' = Reply("get_process_status", given,
                                           process_id, r, jobs[r].status)
              ELSE status_reply' = Reply("get_process_status", given,
                                         process_id, 0, "None")
  /\ UNCHANGED <<jobVars, poolVars, pendingVars, cacheVars, scoreVars, extractVars, batchVars>>

\* jobs being started, failing and being cancelled while their status is
\* asked for
StatusNext ==
  \/ \E p \in Procs : resume_tubebuddy_background(p)
  \/ \E p \in Procs : run_async_check(p)
  \/ \E p \in Procs : start_process_check(p)
  \/ \E p \in Procs : start_process_insert(p)
  \/ \E p \in Procs, m \in Messages : run_async_except(p, m)
  \/ \E id \in 1..MaxJobs : cancel_route(id)
  \/ get_extraction_status
  \/ \E given \in BOOLEAN, id \in ProcessIds : get_process_status(given, id)

StatusInit == status_reply = Reply("none", FALSE, 0, 0, "None")

\* -------------------------------------------------------- ScoringService
\* Scores are kept in hundredths of a point (6000 is 60.00), fractions
\* beyond that are dropped.

\* round(x) of Python on a value in hundredths: to the nearest integer,
\* a half going to the even one
Round(c) ==
  LET q == c \div 100
      r == c % 100
  IN IF r > 50 \/ (r = 50 /\ q % 2 = 1) THEN q + 1 ELSE q

Pow10(d) == IF d = 0 THEN 1 ELSE 10 * Pow10(d - 1)

\* number of decimal digits of n, minus one
Magnitude(n) == IF n < 10 THEN 0 ELSE 1 + Magnitude(n \div 10)

\* the binary digits of log10(x / LogScale) for LogScale <= x < 10 *
\* LogScale, by repeated squaring; the result is in thousandths
LogFraction(x, bit, weight) ==
  IF bit = 0 THEN 0
  ELSE LET sq == (x * x) \div LogScale
       IN IF sq >= 10 * LogScale
            THEN weight + LogFraction(sq \div 10, bit - 1, weight \div 2)
            ELSE LogFraction(sq, bit - 1, weight \div 2)

\* math.log10(n) for n >= 1, in thousandths, exact on the powers of ten
\* and within 0.002 elsewhere; n is read to its four leading digits
log10(n) ==
  LET d == Magnitude(n)
      lead == IF d > 3 THEN n \div Pow10(d - 3) ELSE n * Pow10(3 - d)
  IN 1000 * d + (LogFraction((lead * LogScale) \div 1000, LogBits, 500000)
                   \div 1000)

\* weights and niche_coefficients['music'] of __init__, in tenths
weights == [search_volume |-> 4, competition |-> 4, optimization |-> 2]
music_coefficient == 15

\* what the scorer reads of a search result: the channel, the age of
\* publishedAt (a video of less than a month is also of less than six)
\* and the six tests of the optimization formula on title and description
Channels == {"UCa", "UCb"}
Ages == {"old", "recent", "very_recent"}
Snippets ==
  {[artist_in_title |-> TRUE, type_beat_in_title |-> TRUE,
    short_title |-> FALSE, short_description |-> FALSE,
    type_beat_in_description |-> TRUE, format_word_in_title |-> TRUE],
   [artist_in_title |-> TRUE, type_beat_in_title |-> TRUE,
    short_title |-> TRUE, short_description |-> TRUE,
    type_beat_in_description |-> FALSE, format_word_in_title |-> TRUE],
   [artist_in_title |-> FALSE, type_beat_in_title |-> FALSE,
    short_title |-> TRUE, short_description |-> TRUE,
    type_beat_in_description |-> FALSE, format_word_in_title |-> FALSE]}
Videos == [channelId : Channels, age : Ages, snippet : Snippets]
Samples == UNION {[1..n -> Videos] : n \in 0..MaxSample}

\* an entry of channel_stats_cache: absent, or with its subscriberCount
ChannelStats ==
  {[known |-> FALSE, subscriberCount |-> 0]}
    \cup {[known |-> TRUE, subscriberCount |-> c] : c \in {500, 1000000}}

\* the value of get_trends_score and of get_search_count_estimate (0
\* stands for None)
TrendsScores == {0, 1, 50, 100}
NoCount == 0
CachedCounts == {NoCount, 1000, 5000000}

SumSeq(seq) == IF seq = <<>> THEN 0 ELSE Head(seq) + SumSeq(Tail(seq))
Count(seq, Test(_)) == Cardinality({i \in DOMAIN seq : Test(seq[i])})
Max(a, b) == IF a > b THEN a ELSE b

is_recent_video(video, months_threshold) ==
  IF months_threshold = 6 THEN video.age \in {"recent", "very_recent"}
  ELSE video.age = "very_recent"

\* _estimate_total_video_count.  The ratios are exact in floating point
\* for samples of one or two results; beyond, the product of line 586 may
\* differ from the quotient below in its last unit.
estimate_total_video_count(search_results, cached_count) ==
  IF search_results = <<>> THEN 0
  ELSE IF cached_count # NoCount THEN cached_count
  ELSE LET sample_size == Len(search_results)
           unique_channels ==
             {search_results[i].channelId : i \in DOMAIN search_results}
           recent_videos ==
             Count(search_results, LAMBDA v : is_recent_video(v, 6))
           very_recent_videos ==
             Count(search_results, LAMBDA v : is_recent_video(v, 1))
           estimated_count ==
             (1000 * (sample_size + 10 * Cardinality(unique_channels))
                   * (sample_size + 5 * recent_videos + 3 * very_recent_videos))
               \div sample_size
       IN Max(1000, Min(estimated_count, 5000000))

\* _calculate_search_volume_tubebuddy_formula, in hundredths
calculate_search_volume_tubebuddy_formula(trends_score, estimated_video_count) ==
  IF estimated_video_count <= 1
    THEN 100 * Min(trends_score * 10, 100)
    ELSE Max(0, Min((trends_score * 3000000) \div log10(estimated_video_count),
                    10000))

\* faulty variant (sensitivity of the properties): the volume factor is
\* not capped at 60
volume_factor_uncapped(estimated_video_count) ==
  IF estimated_video_count > 1
    THEN (log10(estimated_video_count) * 15) \div 10
    ELSE 0

\* volume_factor of line 638, in hundredths
volume_factor(estimated_video_count) ==
  IF estimated_video_count > 1
    THEN Min((log10(estimated_video_count) * 15) \div 10, 6000)
    ELSE 0

\* _calculate_competition_tubebuddy_formula, in hundredths
calculate_competition_tubebuddy_formula(search_results, channel_stats_cache, estimated_video_count) ==
  IF search_results = <<>> THEN 0
  ELSE LET n == Len(search_results)
           stats(v) == channel_stats_cache[v.channelId]
           high_quality_competitors ==
             Count(search_results,
                   LAMBDA v : stats(v).known
                                /\ stats(v).subscriberCount > 10000)
           total_subscribers ==
             SumSeq([i \in DOMAIN search_results |->
                    IF stats(search_results[i]).known
                      THEN stats(search_results[i]).subscriberCount ELSE 0])
           recent_uploads ==
             Count(search_results, LAMBDA v : is_recent_video(v, 6))
           quality_factor == (high_quality_competitors * 2500) \div n
           recency_factor == (recent_uploads * 1000) \div n
           subscriber_factor == Min(total_subscribers \div (n * 100), 500)
       IN Min(volume_factor(estimated_video_count) + quality_factor
                + recency_factor + subscriber_factor, 10000)

\* opportunity_points of one result, lines 700-723
opportunity_points(snippet) ==
  Min((IF snippet.artist_in_title THEN 0 ELSE 25)
        + (IF snippet.type_beat_in_title THEN 0 ELSE 25)
        + (IF snippet.short_title THEN 15 ELSE 0)
        + (IF snippet.short_description THEN 20 ELSE 0)
        + (IF snippet.type_beat_in_description THEN 0 ELSE 10)
        + (IF snippet.format_word_in_title THEN 0 ELSE 5), 100)

\* _calculate_optimization_tubebuddy_formula, in hundredths (the slice
\* [:20] of the caller keeps a sample of this size whole)
calculate_optimization_tubebuddy_formula(search_results) ==
  IF search_results = <<>> THEN 10000
  ELSE Min((100 * SumSeq([i \in DOMAIN search_results |->
                         opportunity_points(search_results[i].snippet)]))
             \div Len(search_results), 10000)

\* the dict returned by calculate_artist_score
ScoreResult(error, sv, comp, opt, overall, count) ==
  [error |-> error, search_volume_score |-> sv, competition_score |-> comp,
   optimization_score |-> opt, overall_score |-> overall,
   estimated_video_count |-> count, category |-> "-", returned |-> TRUE]

\* faulty variant (sensitivity of the properties): no short circuit on an
\* empty sample, the blend is applied to it
empty_sample_result_blended(trends_score) ==
  LET sv == calculate_search_volume_tubebuddy_formula(trends_score, 0)
      overall == Min(((sv * weights.search_volume
                        + 10000 * weights.competition
                        + 10000 * weights.optimization)
                       * music_coefficient) \div 100, 10000)
  IN ScoreResult(FALSE, Round(sv), 0, 100, Round(overall), 0)

\* lines 84-100: no result, the niche is untouched
empty_sample_result(trends_score) ==
  ScoreResult(FALSE, Min(trends_score, 100), 0, 100,
              Round(Min(trends_score, 100) * 80), 0)

\* faulty variant (sensitivity of the properties): the blend is returned
\* without the cap of line 130
limit_overall_unlimited(overall_score) == overall_score

\* line 130
limit_overall(overall_score) == Min(overall_score, 10000)

\* calculate_artist_score from the search results on (lines 84-165);
\* raised is TRUE when a call inside the try block raises
calculate_artist_score_result(trends_score, search_results, channel_stats_cache, cached_count, raised) ==
  IF raised THEN ScoreResult(TRUE, 0, 100, 0, 0, 0)
  ELSE IF search_results = <<>> THEN empty_sample_result(trends_score)
  ELSE LET estimated_video_count ==
             estimate_total_video_count(search_results, cached_count)
           search_volume_score ==
             calculate_search_volume_tubebuddy_formula(trends_score,
                                                       estimated_video_count)
           competition_score ==
             calculate_competition_tubebuddy_formula(
               search_results, channel_stats_cache, estimated_video_count)
           optimization_score ==
             calculate_optimization_tubebuddy_formula(search_results)
           overall_score ==
             limit_overall(((search_volume_score * weights.search_volume
                              + (10000 - competition_score) * weights.competition
                              + optimization_score * weights.optimization)
                             * music_coefficient) \div 100)
       IN ScoreResult(FALSE, Round(search_volume_score),
                      Round(competition_score), Round(optimization_score),
                      Round(overall_score), estimated_video_count)

\* faulty variant (sensitivity of the properties): the second threshold
\* is tested with > instead of >=
get_score_interpretation_strict(score) ==
  IF score >= 8000 THEN "Excellent"
  ELSE IF score > 6500 THEN "Très bon"
  ELSE IF score >= 5000 THEN "Moyen"
  ELSE IF score >= 3000 THEN "Faible"
  ELSE "Très faible"

\* get_score_interpretation: the category of a score in hundredths
get_score_interpretation(score) ==
  IF score >= 8000 THEN "Excellent"
  ELSE IF score >= 6500 THEN "Très bon"
  ELSE IF score >= 5000 THEN "Moyen"
  ELSE IF score >= 3000 THEN "Faible"
  ELSE "Très faible"

\* scores passed to the interpretation: whole points, and the values
\* just under each threshold
InterpretedScores ==
  {100 * k : k \in 0..100} \cup {2999, 4999, 6499, 7999}

ScoreInput(op, trends_score, search_results, channel_stats_cache, cached_count, raised, score) ==
  [op |-> op, trends_score |-> trends_score,
   search_results |-> search_results,
   channel_stats_cache |-> channel_stats_cache,
   cached_count |-> cached_count, raised |-> raised, score |-> score]

NoStats == [c \in Channels |-> [known |-> FALSE, subscriberCount |-> 0]]

\* the calls made to the service: their arguments, and for
\* calculate_artist_score the trends score and the search results that
\* lines 69-82 obtained.  A raise inside the try block comes from the
\* statistics of a sample that has results.
ScoreCalls ==
  {ScoreInput("calculate_artist_score", t, sr, st, cc, raised, 0) :
     t \in TrendsScores, sr \in Samples, st \in [Channels -> ChannelStats],
     cc \in CachedCounts, raised \in BOOLEAN}
    \cup {ScoreInput("get_score_interpretation", 0, <<>>, NoStats, NoCount,
                     FALSE, score) : score \in InterpretedScores}

Pending == [ScoreResult(FALSE, 0, 0, 0, 0, 0) EXCEPT !.returned = FALSE]

\* ScoringService.calculate_artist_score, lines 84-165
calculate_artist_score ==
  /\ sc_in.op = "calculate_artist_score"
  /\ ~sc_out.returned
  /\ sc_out' = calculate_artist_score_result(
                 sc_in.trends_score, sc_in.search_results,
                 sc_in.channel_stats_cache, sc_in.cached_count, sc_in.raised)
  /\ UNCHANGED <<sc_in, jobVars, poolVars, pendingVars, cacheVars, statusVars,
                 extractVars, batchVars>>

\* the routes that interpret a stored overall score
interpret_score ==
  /\ sc_in.op = "get_score_interpretation"
  /\ ~sc_out.returned
  /\ sc_out' = [ScoreResult(FALSE, 0, 0, 0, 0, 0) EXCEPT
                  !.category = get_score_interpretation(sc_in.score)]
  /\ UNCHANGED <<sc_in, jobVars, poolVars, pendingVars, cacheVars, statusVars,
                 extractVars, batchVars>>

ScoreNext ==
  \/ calculate_artist_score
  \/ interpret_score

\* no scoring call
ScoreInit ==
  /\ sc_in = ScoreInput("none", 0, <<>>, NoStats, NoCount, FALSE, 0)
  /\ sc_out = Pending

\* one scoring call, about to run
ScoreStart ==
  /\ sc_in \in {c \in ScoreCalls : c.raised => c.search_results # <<>>}
  /\ sc_out = Pending

\* -------------------------------------------------------- SourceExtractor
\* A text is the sequence of its tokens: words, and the characters - & ( )
\* [ ] standing alone.  Tokens are separated by one space, except that
\* nothing separates an opening bracket from what follows it nor a closing
\* bracket from what precedes it.  No word of the vocabulary contains a
\* hyphen, a comma or a bracket, and none ends in "ft" or "feat".
Opening == {"(", "["}
Closing == {")", "]"}
Lower(w) ==
  CASE w = "Lil" -> "lil" [] w = "Baby" -> "baby" [] w = "Gunna" -> "gunna"
    [] w = "Drip" -> "drip" [] w = "Too" -> "too" [] w = "Hard" -> "hard"
    [] w = "Future" -> "future" [] w = "Drake" -> "drake"
    [] w = "Album" -> "album" [] w = "The" -> "the" [] w = "Game" -> "game"
    [] w = "Song" -> "song" [] w = "Official" -> "official"
    [] w = "Video" -> "video" [] w = "Migos" -> "migos" [] w = "X" -> "x"
    [] OTHER -> w

\* character classes of the regular expressions, per token
Digits == {"21", "2024"}
Years == {"2024"}                             \* \d{4}
Mentions == {"@wave"}                         \* @[\w]+
Symbols == {"-", "&"} \cup Opening \cup Closing
StartsUpper(w) ==                             \* [A-Z] first
  w \in {"Lil", "Baby", "Gunna", "Drip", "Too", "Hard", "Future", "Drake",
         "Album", "The", "Game", "Song", "Official", "Video", "Migos"}
StartsWithLetter(w) == w \notin Digits \cup Mentions \cup Symbols
PlainWord(w) == w \notin Mentions \cup Symbols      \* [A-Za-z0-9$.]+
HasTwoAlphanumerics(w) == w \notin Symbols \cup {"x", "X"}

\* whitespace between token i and token i + 1
SpaceAfter(text, i) ==
  i < Len(text) /\ text[i] \notin Opening /\ text[i + 1] \notin Closing
SpaceBefore(text, i) == i > 1 /\ SpaceAfter(text, i - 1)

\* the string of a token sequence, and its lower case
NameText(text) ==
  IF text = <<>> THEN ""
  ELSE IF Len(text) = 1 THEN text[1]
  ELSE text[1] \o (IF SpaceAfter(text, 1) THEN " " ELSE "")
         \o NameText(Tail(text))
LowerTokens(text) == [i \in DOMAIN text |-> Lower(text[i])]

\* text.split(): the number of words between whitespace
WordCount(text) ==
  IF text = <<>> THEN 0
  ELSE 1 + Cardinality({i \in 1..(Len(text) - 1) : SpaceAfter(text, i)})

NoMatch == [matched |-> FALSE, artists_part |-> <<>>, song_part |-> <<>>]

\* the tail (?:\s*\(.*\))?(?:\s*\[.*\])?$ of standard_pattern
OptionalGroups(rest) ==
  \/ rest = <<>>
  \/ rest[1] = "(" /\ rest[Len(rest)] = ")"
  \/ rest[1] = "[" /\ rest[Len(rest)] = "]"
  \/ /\ rest[1] = "(" /\ rest[Len(rest)] = "]"
     /\ \E j \in 2..(Len(rest) - 2) : rest[j] = ")" /\ rest[j + 1] = "["

\* re.match(standard_pattern, title): group 1 ends before the first
\* hyphen, group 2 is the shortest text after it that leaves only the
\* optional bracket groups
standard_pattern(title) ==
  LET hyphens == {i \in DOMAIN title : title[i] = "-"}
  IN IF hyphens = {} THEN NoMatch
     ELSE LET h == CHOOSE i \in hyphens : \A j \in hyphens : i <= j
              rest == SubSeq(title, h + 1, Len(title))
              ends == {k \in 1..Len(rest) :
                         OptionalGroups(SubSeq(rest, k + 1, Len(rest)))}
          IN IF h = 1 \/ h = Len(title) THEN NoMatch
             ELSE [matched |-> TRUE,
                   artists_part |-> SubSeq(title, 1, h - 1),
                   song_part |->
                     SubSeq(rest, 1, CHOOSE k \in ends :
                                       \A j \in ends : k <= j)]

\* faulty variant (sensitivity of the properties): the symbols are not
\* separators
separators_words_only ==
  {"x", "and", "vs", "vs.", "feat", "feat.", "ft", "ft.", "featuring",
   "with"}

\* the separators of _split_artists, in lower case (the pattern ",\s+"
\* needs a comma, which no token has)
separators ==
  {"x", "&", "+", "and", "vs", "vs.", "feat", "feat.", "ft", "ft.",
   "featuring", "with"}

\* a separator needs whitespace on both sides, and the whitespace that
\* follows one separator is not there for the next
IsSeparator(text, i) ==
  /\ Lower(text[i]) \in separators
  /\ SpaceBefore(text, i)
  /\ SpaceAfter(text, i)

SplitFrom(text, i, part, after_separator) ==
  IF i > Len(text) THEN (IF part = <<>> THEN <<>> ELSE <<part>>)
  ELSE IF IsSeparator(text, i) /\ ~after_separator
    THEN (IF part = <<>> THEN <<>> ELSE <<part>>)
           \o SplitFrom(text, i + 1, <<>>, TRUE)
    ELSE SplitFrom(text, i + 1, Append(part, text[i]), FALSE)

\* _split_artists: the parts between the separators
split_artists(text) == SplitFrom(text, 1, <<>>, FALSE)

exclude_keywords ==
  {"acoustic", "album", "amp", "analysis", "and", "audio", "backstage",
   "beat", "behind", "breakdown", "clean", "collective", "colors",
   "complete", "complex", "concert", "debut", "directed", "documentary",
   "edit", "effect", "entertainment", "entire", "exclusive", "experience",
   "explicit", "extended", "filmed", "from", "full", "genius", "group",
   "instrumental", "interview", "introduces", "latest", "live", "lyric",
   "lyrics", "mastered", "mdash", "media", "mixed", "mixtape", "music",
   "nbsp", "ndash", "new", "official", "or", "performance", "premiere",
   "presents", "produced", "productions", "quot", "reaction", "recap",
   "recorded", "records", "rehearsal", "remix", "review", "scenes",
   "session", "shot", "single", "song", "soundcheck", "sway", "talks",
   "the", "tour", "track", "version", "versus", "vevo", "video",
   "visualizer", "vs", "whole", "with", "worldstar", "tiny desk",
   "breakfast club", "type beat", "freestyle beat"}

\* exclude_phrases, each as its words
exclude_phrases ==
  {<<"music", "video">>, <<"official", "video">>, <<"lyric", "video">>,
   <<"live", "performance">>, <<"full", "album">>, <<"full", "ep">>,
   <<"directed", "by">>, <<"produced", "by">>, <<"shot", "by">>,
   <<"turns", "mashups">>, <<"elevator", "pitch">>, <<"mic", "check">>,
   <<"the", "cypher", "effect">>, <<"on", "the", "radar">>,
   <<"mafiathon", "freestyle">>, <<"dj", "set">>}

\* phrase in name_lower, for names whose words neither end nor begin
\* with a piece of a phrase
ContainsPhrase(lower, phrase) ==
  \E i \in 1..(Len(lower) - Len(phrase) + 1) :
    SubSeq(lower, i, i + Len(phrase) - 1) = phrase

\* None
NoName == <<>>

\* re.sub(r"\s+\d{4}$", "", name)
strip_year(name) ==
  IF Len(name) >= 2 /\ name[Len(name)] \in Years
    THEN SubSeq(name, 1, Len(name) - 1) ELSE name

\* _clean_artist_name: the cleaned name, or NoName
clean_artist_name(raw) ==
  LET name1 == SelectSeq(raw, LAMBDA w : w \notin Opening \cup Closing)
      name_lower == LowerTokens(name1)
      lower_text == NameText(name_lower)
      potential_name == Tail(name1)
      name2 == IF Len(name1) >= 2 /\ name_lower[1] = "the"
                    /\ NameText(LowerTokens(potential_name))
                         \notin exclude_keywords
                 THEN potential_name ELSE name1
      name3 == strip_year(name2)
      name == SelectSeq(name3, LAMBDA w : w \notin Mentions)
  IN IF raw = <<>> THEN NoName
     ELSE IF Len(NameText(name1)) < 2 \/ Len(NameText(name1)) > 60 THEN NoName
     ELSE IF lower_text \in exclude_keywords THEN NoName
     ELSE IF \E phrase \in exclude_phrases : ContainsPhrase(name_lower, phrase)
       THEN NoName
     ELSE IF ~\E i \in DOMAIN name : HasTwoAlphanumerics(name[i]) THEN NoName
     ELSE IF Len(name) > 4 THEN NoName
     ELSE IF Len(name) = 1 /\ name[1] \in Digits THEN NoName
     ELSE IF Len(name_lower) >= 2
               /\ name_lower[1] \in {"feat", "ft", "with", "and", "x"}
       THEN NoName
     ELSE IF Len(name_lower) >= 2
               /\ name_lower[Len(name_lower)]
                    \in {"feat", "ft", "with", "and", "x"}
       THEN NoName
     ELSE name

\* the cleaned names of the parts of a text
CleanedParts(text) ==
  LET parts == split_artists(text)
  IN {clean_artist_name(parts[i]) : i \in DOMAIN parts} \ {NoName}

\* (?:feat\.?|ft\.?|featuring), in lower case
FeatWords == {"feat", "feat.", "ft", "ft.", "featuring"}

FirstIndex(S) == CHOOSE i \in S : \A j \in S : i <= j

\* the groups of the matches of \((?:feat...)\s+([^)]+)\) from token i on,
\* and of the same pattern with [ ]: an opening bracket, the word, and a
\* text that runs to the next closing bracket
BracketedFrom(text, i, open, close) ==
  LET starts == {k \in i..(Len(text) - 3) :
                   /\ text[k] = open
                   /\ Lower(text[k + 1]) \in FeatWords
                   /\ SpaceAfter(text, k + 1)
                   /\ \E j \in (k + 3)..Len(text) : text[j] = close}
  IN IF starts = {} THEN {}
     ELSE LET k == FirstIndex(starts)
              j == FirstIndex({x \in (k + 3)..Len(text) : text[x] = close})
          IN {SubSeq(text, k + 2, j - 1)}
               \cup BracketedFrom(text, j + 1, open, close)

\* the groups of the matches of (?:feat...)\s+([^(\[]+?)(?:\s*\(|\s*\[|$)
\* from token i on: the word, and the text up to the next opening bracket
\* or to the end
UnbracketedFrom(text, i) ==
  LET starts == {k \in i..(Len(text) - 1) :
                   /\ Lower(text[k]) \in FeatWords
                   /\ SpaceAfter(text, k)
                   /\ text[k + 1] \notin Opening}
  IN IF starts = {} THEN {}
     ELSE LET k == FirstIndex(starts)
              stops == {x \in (k + 2)..Len(text) : text[x] \in Opening}
              j == IF stops = {} THEN Len(text) + 1 ELSE FirstIndex(stops)
          IN {SubSeq(text, k + 1, j - 1)} \cup UnbracketedFrom(text, j + 1)

\* _extract_featuring
extract_featuring(text) ==
  UNION {CleanedParts(feat_part) :
           feat_part \in BracketedFrom(text, 1, "(", ")")
                           \cup BracketedFrom(text, 1, "[", "]")
                           \cup UnbracketedFrom(text, 1)}

\* the last of performance_patterns, the only one that a text of this
\* vocabulary can match (the others, and cypher_pattern, need one of the
\* words Freestyle, Performance, Radar, Session, Check, Cypher or a "|"):
\* letters, digits, $ . & and spaces from the start up to " feat. " or
\* " ft. "; the group, or <<>>
performance_patterns(title) ==
  LET stops == {k \in 2..(Len(title) - 1) :
                  /\ Lower(title[k]) \in {"feat.", "ft."}
                  /\ SpaceBefore(title, k) /\ SpaceAfter(title, k)}
  IN IF stops = {} THEN <<>>
     ELSE LET k == FirstIndex(stops)
          IN IF /\ StartsWithLetter(title[1])
                /\ \A i \in 1..(k - 1) : PlainWord(title[i]) \/ title[i] = "&"
                /\ Len(NameText(SubSeq(title, 1, k - 1))) >= 2
               THEN SubSeq(title, 1, k - 1) ELSE <<>>

\* collab_pattern: the longest start of the title made of words that
\* begin with a capital, joined at least once by & or x
collab_pattern(title) ==
  LET Joins(i, n) ==
        /\ 1 < i /\ i < n
        /\ title[i] \in {"&", "x", "X"}
        /\ StartsUpper(title[i + 1])
      Valid(n) ==
        /\ StartsUpper(title[1])
        /\ \A i \in 1..n : PlainWord(title[i]) \/ (title[i] = "&" /\ Joins(i, n))
        /\ \E i \in 1..n : Joins(i, n)
      lengths == {n \in DOMAIN title : Valid(n)}
  IN IF lengths = {} THEN <<>>
     ELSE SubSeq(title, 1, CHOOSE n \in lengths : \A m \in lengths : m <= n)

\* the words that keep a short title from being taken for a name (no word
\* of the vocabulary has one of them as a proper part)
ShortTitleWords ==
  {"official", "music", "video", "audio", "lyric", "visualizer", "recap",
   "commercial", "live", "performance"}

\* _extract_artist_names_from_text on a single line of text
extract_artist_names_from_text(title) ==
  LET match == standard_pattern(title)
      performance == performance_patterns(title)
      performers ==
        CleanedParts(IF Len(performance) > 1 /\ Lower(performance[1]) = "the"
                       THEN Tail(performance) ELSE performance)
      from_patterns ==
        IF match.matched
          THEN CleanedParts(match.artists_part)
                 \cup extract_featuring(match.song_part)
          ELSE IF performers # {} THEN performers
          ELSE CleanedParts(collab_pattern(title))
      artists == from_patterns \cup extract_featuring(title)
  IN IF artists = {} /\ WordCount(title) <= 4
          /\ \A i \in DOMAIN title : Lower(title[i]) \notin ShortTitleWords
       THEN {clean_artist_name(title)} \ {NoName}
       ELSE artists

\* the titles of the calls: "artists - song suffix", and titles with no
\* hyphen
ArtistParts ==
  {<<"Lil", "Baby", "&", "Gunna">>, <<"Drake">>, <<"Album", "2024">>,
   <<"The", "Game">>, <<"Migos", "x", "Drake">>, <<"21">>,
   <<"Drake", "with", "@wave">>, <<"The", "x", "Drake">>}
SongParts ==
  {<<"Drip", "Too", "Hard">>, <<"Song">>, <<"Song", "feat.", "Future">>}
Suffixes ==
  {<<>>, <<"(", "feat.", "Future", ")">>, <<"(", "Official", "Video", ")">>,
   <<"[", "ft.", "Gunna", "]">>,
   <<"(", "feat.", "Future", "&", "Gunna", ")", "[", "Official", "Video",
     "]">>,
   <<"(", "feat.", "Album", "2024", ")">>}
PlainTitles ==
  {<<"Drake", "feat.", "Future">>, <<"Migos", "x", "Drake">>,
   <<"Migos", "X", "Drake", "(", "Official", "Video", ")">>,
   <<"Lil", "Baby", "&", "Gunna", "Drip", "Too", "Hard">>,
   <<"The", "Game", "ft.", "Drake", "&", "Future">>,
   <<"Album", "2024">>, <<"Drake">>, <<"Official", "Video">>,
   <<"Drake", "with", "@wave">>, <<"21">>, <<"The", "Song">>,
   <<"Drake", "Song", "(", "feat.", "Future", ")">>}
Titles ==
  {a \o <<"-">> \o t \o x : a \in ArtistParts, t \in SongParts, x \in Suffixes}
    \cup PlainTitles

\* a call that has not returned
NotExtracted == [returned |-> FALSE, names |-> {}]

\* one call of _extract_artist_names_from_text
extract_artist_names ==
  /\ ex_title # <<>>
  /\ ~ex_artists.returned
  /\ ex_artists' = [returned |-> TRUE,
                    names |-> extract_artist_names_from_text(ex_title)]
  /\ UNCHANGED <<ex_title, jobVars, poolVars, pendingVars, cacheVars,
                 statusVars, scoreVars, batchVars>>

ExtractNext == extract_artist_names

\* no extraction call
ExtractInit ==
  /\ ex_title = <<>>
  /\ ex_artists = NotExtracted

\* one extraction call, about to run
ExtractStart ==
  /\ ex_title \in Titles
  /\ ex_artists = NotExtracted

\* ------------------------------------- background tasks outside the jobs
\* POST /dashboard/resume-tubebuddy-scoring and POST
\* /scoring/update-all-scores/background queue a task with
\* BackgroundTasks.add_task; the model keeps one task per route.
BackgroundRoutes == {"dashboard", "update_all"}
NoTask == [active |-> FALSE, pending_artists |-> <<>>]
NoTasks == [r \in BackgroundRoutes |-> NoTask]

\* dashboard.py, resume_tubebuddy_scoring, lines 302-366: the route
resume_tubebuddy_scoring ==
  /\ ~background["dashboard"].active
  /\ LET pending_artists == get_artists_needing_scoring(needs_scoring)
     IN background' =
          IF pending_artists = <<>> THEN background
          ELSE [background EXCEPT !["dashboard"] =
                  [active |-> TRUE, pending_artists |-> pending_artists]]
  /\ UNCHANGED <<tb, ph, trends, xp, jobVars, poolVars, pendingVars, cacheVars,
                 statusVars, scoreVars, extractVars>>

\* dashboard.py, scoring_task, lines 319-357: the artists of the snapshot
\* in scored get a score and lose their flag (an entry with "error" is
\* passed over, an exception ends the task)
scoring_task(scored) ==
  /\ background["dashboard"].active
  /\ LET pending_artists == background["dashboard"].pending_artists
     IN /\ scored \subseteq {pending_artists[i] : i \in DOMAIN pending_artists}
        /\ scores' = [a \in ArtistRows |->
                        IF a \in scored THEN scores[a] + 1 ELSE scores[a]]
        /\ needs_scoring' = [a \in ArtistRows |->
                               IF a \in scored THEN FALSE ELSE needs_scoring[a]]
  /\ background' = [background EXCEPT !["dashboard"] = NoTask]
  /\ UNCHANGED <<tb, ph, trends, xp, jobs, pc, response, procLocals, poolVars,
                 pendingVars, cacheVars, statusVars, scoreVars, extractVars>>

\* scoring.py, update_all_scores_background, lines 124-138: the route
update_all_scores_background ==
  /\ ~background["update_all"].active
  /\ background' = [background EXCEPT !["update_all"] =
                      [active |-> TRUE, pending_artists |-> <<>>]]
  /\ UNCHANGED <<tb, ph, trends, xp, jobVars, poolVars, pendingVars, cacheVars,
                 statusVars, scoreVars, extractVars>>

\* CollectionScheduler.update_existing_artists_scores, lines 115-148:
\* _calculate_and_save_score writes nothing for any artist
update_task ==
  /\ background["update_all"].active
  /\ background' = [background EXCEPT !["update_all"] = NoTask]
  /\ UNCHANGED <<tb, ph, trends, xp, jobVars, poolVars, pendingVars, cacheVars,
                 statusVars, scoreVars, extractVars>>

\* the starts of the jobs and the background tasks
FlightNext ==
  \/ \E p \in Procs : resume_tubebuddy_background(p)
  \/ \E p \in Procs : run_async_check(p)
  \/ \E p \in Procs : start_process_check(p)
  \/ \E p \in Procs : start_process_insert(p)
  \/ \E p \in Procs, m \in Messages : run_async_except(p, m)
  \/ resume_tubebuddy_scoring
  \/ \E scored \in SUBSET Artists : scoring_task(scored)
  \/ update_all_scores_background
  \/ update_task

\* ---------------------------------------------------------- TrendsService
\* Time is counted in ticks.  The module globals _rate_limit_lock and
\* _last_request_time are shared by every instance; the lock is held by
\* the thread whose call is at "locked".
Threads == 1..NThreads
min_delay_between_requests == 1 * TicksPerSecond
NoRequest == 0 - 1

\* _last_request_time = 0 at import, and a clock that is far from 0
NoCalls ==
  [now |-> min_delay_between_requests,
   last_request_time |-> 0,
   provider_last |-> NoRequest,     \* when the provider got its last request
   provider_gap |-> NoRequest,      \* the time between its last two requests
   call |-> [t \in Threads |-> "idle"],
   wake |-> [t \in Threads |-> 0],
   returned |-> [t \in Threads |-> "none"]]

\* the provider receives a request
Received(tr) ==
  [tr EXCEPT !.provider_last = tr.now,
             !.provider_gap = IF tr.provider_last = NoRequest THEN NoRequest
                              ELSE tr.now - tr.provider_last]

trends_tick ==
  /\ trends.now < MaxTime
  /\ trends' = [trends EXCEPT !.now = @ + 1]
  /\ UNCHANGED <<tb, ph, background, xp, jobVars, poolVars, pendingVars,
                 cacheVars, statusVars, scoreVars, extractVars>>

\* get_trends_score, lines 43-51: the score is in the cache
get_trends_score_cached(t) ==
  /\ trends.call[t] = "idle"
  /\ trends' = [trends EXCEPT !.returned[t] = "cached"]
  /\ UNCHANGED <<tb, ph, background, xp, jobVars, poolVars, pendingVars,
                 cacheVars, statusVars, scoreVars, extractVars>>

\* get_trends_score, lines 57-64: take the lock, sleep for what is left of
\* the delay
get_trends_score_lock(t) ==
  /\ trends.call[t] = "idle"
  /\ \A u \in Threads : trends.call[u] # "locked"
  /\ LET elapsed == trends.now - trends.last_request_time
     IN trends' = [trends EXCEPT
          !.call[t] = "locked",
          !.returned[t] = "none",
          !.wake[t] = IF elapsed < min_delay_between_requests
                        THEN trends.now + (min_delay_between_requests - elapsed)
                        ELSE trends.now]
  /\ UNCHANGED <<tb, ph, background, xp, jobVars, poolVars, pendingVars,
                 cacheVars, statusVars, scoreVars, extractVars>>

\* get_trends_score, lines 66-107: the request, under the lock; when it
\* raises, line 75 is not reached and 0.0 is returned
get_trends_score_request(t, raised) ==
  /\ trends.call[t] = "locked"
  /\ trends.now >= trends.wake[t]
  /\ trends' = [Received(trends) EXCEPT
       !.call[t] = "idle",
       !.returned[t] = IF raised THEN "zero" ELSE "score",
       !.last_request_time = IF raised THEN @ ELSE trends.now]
  /\ UNCHANGED <<tb, ph, background, xp, jobVars, poolVars, pendingVars,
                 cacheVars, statusVars, scoreVars, extractVars>>

\* get_batch_trends_scores, lines 109-190, for one batch with a keyword
\* that is not in the cache: the request
get_batch_trends_scores(t, raised) ==
  /\ trends.call[t] = "idle"
  /\ trends' = [Received(trends) EXCEPT
       !.returned[t] = IF raised THEN "zero" ELSE "score"]
  /\ UNCHANGED <<tb, ph, background, xp, jobVars, poolVars, pendingVars,
                 cacheVars, statusVars, scoreVars, extractVars>>

TrendsNext ==
  \/ trends_tick
  \/ \E t \in Threads : get_trends_score_cached(t)
  \/ \E t \in Threads : get_trends_score_lock(t)
  \/ \E t \in Threads, raised \in BOOLEAN : get_trends_score_request(t, raised)
  \/ \E t \in Threads, raised \in BOOLEAN : get_batch_trends_scores(t, raised)

\* ------------------------------------- SourceExtractor, the extraction passes
\* run_full_extraction and run_weekly_extraction share the treatment of the
\* artists they found.  A name is the sequence of its words.
CandidateNames == {<<"Drake">>, <<"drake">>, <<"Game">>, <<"The", "Game">>}
Dates == 1..MaxDate

\* Artist.name.ilike(f"%{name}%")
ilike(row_name, name) ==
  ContainsPhrase(LowerTokens(row_name), LowerTokens(name))

\* ArtistService.get_artist_by_name: the rows among which .first() takes
\* one; the query has no ORDER BY
get_artist_by_name(rows, name) ==
  {r \in DOMAIN rows : ilike(rows[r].name, name)}

NoCandidate ==
  [name |-> <<>>, appearance_date |-> 0, existing |-> 0, created |-> FALSE]

NoPass ==
  [rows |-> <<>>,            \* the artists table
   unique_artists |-> <<>>,  \* what is left of the list of the pass
   passes |-> 0,
   last |-> NoCandidate]     \* the artist that was treated last

\* lines 627-636: artists_dict keeps, for each name, the item with the
\* latest appearance_date
Deduplicated(all_artists) ==
  {a \in all_artists :
     \A b \in all_artists : b.name = a.name =>
        b.appearance_date <= a.appearance_date}

\* lines 638-640: the lists sorted by appearance_date, latest first
SortedLists(items) ==
  {q \in [1..Cardinality(items) -> items] :
     /\ \A i, j \in DOMAIN q : i # j => q[i] # q[j]
     /\ \A i, j \in DOMAIN q :
          i < j => q[i].appearance_date >= q[j].appearance_date}

\* the pass up to line 642: the sources give their items
run_extraction(all_artists) ==
  /\ xp.unique_artists = <<>>
  /\ xp.passes < MaxPasses
  /\ \E q \in SortedLists(Deduplicated(all_artists)) :
       xp' = [xp EXCEPT !.unique_artists = q, !.passes = @ + 1,
                        !.last = NoCandidate]
  /\ UNCHANGED <<tb, ph, background, trends, jobVars, poolVars, pendingVars,
                 cacheVars, statusVars, scoreVars, extractVars>>

\* the row of an artist; seen is the latest appearance_date of the items
\* that named this artist, up to case, since the row exists
ArtistRow(name, appearance_date) ==
  [name |-> name, most_recent_appearance |-> appearance_date,
   needs_scoring |-> TRUE, seen |-> appearance_date]

\* the items of the artist that was treated go to the row of that name
Seen(rows, name, appearance_date) ==
  [r \in DOMAIN rows |->
     IF LowerTokens(rows[r].name) = LowerTokens(name)
       THEN [rows[r] EXCEPT !.seen = Max(@, appearance_date)]
       ELSE rows[r]]

\* lines 650-704 (and 979-1060): one artist of the list; collected tells
\* whether _collect_artist_with_enriched_metadata saved a new artist
save_artist(collected) ==
  /\ xp.unique_artists # <<>>
  /\ LET artist_data == Head(xp.unique_artists)
         artist_name == artist_data.name
         appearance_date == artist_data.appearance_date
         found == get_artist_by_name(xp.rows, artist_name)
     IN IF found # {}
          THEN /\ collected
               /\ \E existing \in found :
                    LET row == xp.rows[existing]
                        newer == appearance_date > row.most_recent_appearance
                        updated ==
                          IF newer
                            THEN [row EXCEPT
                                    !.most_recent_appearance = appearance_date,
                                    !.needs_scoring = TRUE]
                            ELSE row
                    IN xp' = [xp EXCEPT
                         !.rows = Seen([xp.rows EXCEPT ![existing] = updated],
                                       artist_name, appearance_date),
                         !.unique_artists = Tail(@),
                         !.last = [name |-> artist_name,
                                   appearance_date |-> appearance_date,
                                   existing |-> existing, created |-> FALSE]]
          ELSE xp' = [xp EXCEPT
                 !.rows = IF collected
                            THEN Append(@, ArtistRow(artist_name,
                                                     appearance_date))
                            ELSE @,
                 !.unique_artists = Tail(@),
                 !.last = [name |-> artist_name,
                           appearance_date |-> appearance_date,
                           existing |-> 0, created |-> collected]]
  /\ UNCHANGED <<tb, ph, background, trends, jobVars, poolVars, pendingVars,
                 cacheVars, statusVars, scoreVars, extractVars>>

\* TubeBuddyProcessor._process_batch, lines 166-168: a score is saved
mark_scored(r) ==
  /\ r \in DOMAIN xp.rows
  /\ xp.rows[r].needs_scoring
  /\ xp' = [xp EXCEPT !.rows[r].needs_scoring = FALSE]
  /\ UNCHANGED <<tb, ph, background, trends, jobVars, poolVars, pendingVars,
                 cacheVars, statusVars, scoreVars, extractVars>>

SourceItems == [name : CandidateNames, appearance_date : Dates]

PassNext ==
  \/ \E all_artists \in SUBSET SourceItems :
       /\ Cardinality(all_artists) \in 1..MaxItems
       /\ run_extraction(all_artists)
  \/ \E collected \in BOOLEAN : save_artist(collected)
  \/ \E r \in 1..Cardinality(CandidateNames) : mark_scored(r)

\* ------------------------------- TubeBuddyProcessor, the lists of errors
\* execute_process and _process_batch of one processor on a list of
\* MaxEntities pending artists, with the error messages kept as lists.  A
\* message is told by the artist that it names.
LongList == [i \in 1..MaxEntities |-> i]

\* the job was cancelled, as refresh_process_status would read it
Stopped == tb.cancelled

\* faulty variant (sensitivity of the properties): the result keeps every
\* message
execute_process_result_all(pending_artists, done, errs) ==
  [total_artists |-> Len(pending_artists),
   completed |-> done,
   remaining |-> Len(pending_artists) - done,
   errors_count |-> Len(errs),
   errors |-> errs]

\* lines 96-107: the result of execute_process
execute_process_result(pending_artists, done, errs) ==
  [total_artists |-> Len(pending_artists),
   completed |-> done,
   remaining |-> Len(pending_artists) - done,
   errors_count |-> Len(errs),
   errors |-> SubSeq(errs, 1, Min(Len(errs), 10))]

NotReturned == [total_artists |-> 0, completed |-> 0, remaining |-> 0,
             errors_count |-> 0, errors |-> <<>>]

\* faulty variant (sensitivity of the properties): the batches overlap
next_batch_overlap(i) == i + BatchRows - 1

\* line 63, range(0, len(pending_artists), batch_size): the next start
next_batch(i) == i + BatchRows

\* lines 63-74: head of the batch loop
long_batch_poll ==
  /\ tb.pc = "batch_poll"
  /\ IF tb.i >= Len(LongList) \/ Stopped
       THEN tb' = [tb EXCEPT !.pc = "finish"]
       ELSE tb' = [tb EXCEPT !.pc = "entity_poll", !.j = 0,
                             !.batch_completed = 0, !.batch_errors = <<>>]
  /\ UNCHANGED <<ph, background, trends, xp, jobVars, poolVars, pendingVars, cacheVars, statusVars,
                 scoreVars, extractVars>>

\* _process_batch, lines 125-190: one artist of the batch
long_score_artist(outcome) ==
  /\ tb.pc = "entity_poll"
  /\ LET artist == LongList[tb.i + tb.j + 1]
     IN IF tb.j >= Min(BatchRows, Len(LongList) - tb.i) \/ Stopped
          THEN /\ outcome = "score"
               /\ tb' = [tb EXCEPT !.pc = "batch_end"]
          ELSE CASE outcome = "score" ->
                      tb' = [tb EXCEPT !.batch_completed = @ + 1,
                                       !.j = @ + 1, !.attempted = @ + 1,
                                       !.attempts[artist] = @ + 1,
                                       !.records[artist] = @ + 1,
                                       !.outcome = outcome]
                 [] outcome \in {"error", "raise"} ->
                      tb' = [tb EXCEPT !.batch_errors = Append(@, artist),
                                       !.j = @ + 1, !.attempted = @ + 1,
                                       !.attempts[artist] = @ + 1,
                                       !.outcome = outcome]
                 [] outcome = "raise_quota" ->
                      tb' = [tb EXCEPT !.batch_errors = Append(@, artist),
                                       !.attempted = @ + 1,
                                       !.attempts[artist] = @ + 1,
                                       !.outcome = outcome,
                                       !.quota_break = TRUE,
                                       !.pc = "batch_end"]
  /\ UNCHANGED <<ph, background, trends, xp, jobVars, poolVars, pendingVars, cacheVars, statusVars,
                 scoreVars, extractVars>>

\* lines 81-94: fold the batch into the totals
long_batch_end ==
  /\ tb.pc = "batch_end"
  /\ tb' = [tb EXCEPT !.completed_count = @ + tb.batch_completed,
                      !.errors = @ \o tb.batch_errors,
                      !.batch_completed = 0, !.batch_errors = <<>>,
                      !.j = 0,
                      !.i = next_batch(@),
                      !.pc = "batch_poll"]
  /\ UNCHANGED <<ph, background, trends, xp, jobVars, poolVars, pendingVars, cacheVars, statusVars,
                 scoreVars, extractVars>>

\* lines 96-113: build the result and return it
long_finish ==
  /\ tb.pc = "finish"
  /\ tb' = [tb EXCEPT !.pc = "returned",
                      !.result = execute_process_result(
                                   LongList, tb.completed_count, tb.errors)]
  /\ UNCHANGED <<ph, background, trends, xp, jobVars, poolVars, pendingVars, cacheVars, statusVars,
                 scoreVars, extractVars>>

\* POST /extraction/cancel/{id} while the processor runs
long_cancel ==
  /\ tb.pc \in {"batch_poll", "entity_poll", "batch_end"}
  /\ ~tb.cancelled
  /\ tb' = [tb EXCEPT !.cancelled = TRUE]
  /\ UNCHANGED <<ph, background, trends, xp, jobVars, poolVars, pendingVars, cacheVars, statusVars,
                 scoreVars, extractVars>>

BatchNext ==
  \/ long_batch_poll
  \/ \E outcome \in ScoreOutcomes : long_score_artist(outcome)
  \/ long_batch_end
  \/ long_finish
  \/ long_cancel

Locals(at) ==
  [pc |-> at, i |-> 0, j |-> 0, completed_count |-> 0, batch_completed |-> 0,
   errors |-> <<>>, batch_errors |-> <<>>,
   attempted |-> 0,         \* calls of calculate_tubebuddy_score so far
   attempts |-> [a \in 1..MaxEntities |-> 0],  \* the calls, by artist
   records |-> [a \in 1..MaxEntities |-> 0],   \* create_score, by artist
   outcome |-> "none",      \* what the last of them did
   quota_break |-> FALSE,   \* the break of line 190 was taken
   cancelled |-> FALSE, result |-> NotReturned]

\* ------------------------------ Phase1Processor and Phase2Processor
\* execute_process hands its callbacks to a SourceExtractor and runs
\* run_full_extraction (phase1) or run_weekly_extraction (phase2).  The
\* extractor calls the progress callback when it starts a source and then
\* treats the artists that it found, one after the other.
Units(kind, at) ==
  [kind |-> kind, pc |-> at, cancelled |-> FALSE,
   sources_started |-> 0,   \* sources that the extraction began
   artists_started |-> 0,   \* artists that the extraction began to treat
   stopped |-> FALSE]       \* the callback raised StopIteration

\* Phase1Processor._on_source_progress, lines 53-70, and
\* Phase2Processor._on_source_progress, lines 69-79: TRUE when the callback
\* raises StopIteration
on_source_progress(kind, cancelled) == kind = "phase2" /\ cancelled

\* the extractor starts its next source: the callback, then the
\* extraction of the source
start_source ==
  /\ ph.pc = "sources"
  /\ IF ph.sources_started >= NSources
       THEN ph' = [ph EXCEPT !.pc = "artists"]
       ELSE IF on_source_progress(ph.kind, ph.cancelled)
         THEN \* Phase2Processor.execute_process, lines 60-67
              ph' = [ph EXCEPT !.pc = "returned", !.stopped = TRUE]
         ELSE ph' = [ph EXCEPT !.sources_started = @ + 1]
  /\ UNCHANGED <<tb, background, trends, xp, jobVars, poolVars, pendingVars, cacheVars, statusVars,
                 scoreVars, extractVars>>

\* run_full_extraction, lines 650-705, run_weekly_extraction, lines
\* 978-1067: the next of unique_artists
start_artist ==
  /\ ph.pc = "artists"
  /\ IF ph.artists_started >= NFound
       THEN ph' = [ph EXCEPT !.pc = "returned"]
       ELSE ph' = [ph EXCEPT !.artists_started = @ + 1]
  /\ UNCHANGED <<tb, background, trends, xp, jobVars, poolVars, pendingVars, cacheVars, statusVars,
                 scoreVars, extractVars>>

\* POST /extraction/cancel/{id} while the processor runs
phase_cancel ==
  /\ ph.pc \in {"sources", "artists"}
  /\ ~ph.cancelled
  /\ ph' = [ph EXCEPT !.cancelled = TRUE]
  /\ UNCHANGED <<tb, background, trends, xp, jobVars, poolVars, pendingVars, cacheVars, statusVars,
                 scoreVars, extractVars>>

PhaseNext ==
  \/ start_source
  \/ start_artist
  \/ phase_cancel

\* no processor on the long list, no extraction
BatchInit ==
  /\ tb = Locals("idle") /\ ph = Units("none", "idle")
  /\ background = NoTasks /\ trends = NoCalls /\ xp = NoPass

\* lines 58-61: the processor enters its batch loop
BatchStart ==
  /\ tb = Locals("batch_poll") /\ ph = Units("none", "idle")
  /\ background = NoTasks /\ trends = NoCalls /\ xp = NoPass

\* one processor of one of the three kinds, about to do its work
UnitsStart ==
  \/ BatchStart
  \/ /\ tb = Locals("idle")
     /\ ph \in {Units(kind, "sources") : kind \in {"phase1", "phase2"}}
     /\ background = NoTasks /\ trends = NoCalls /\ xp = NoPass

UnitsNext == BatchNext \/ PhaseNext

\* ------------------------------------------------ progress of a job
\* values the processors pass as sources_processed and total_sources
SourceCounts == {0, 1, 29, 50, 57, 100, 120}
Totals == {0, 50, 100}

\* the keyword arguments of an update_progress call
ProgressKwargs ==
  {[sources_processed |-> n] : n \in SourceCounts}
    \cup {[total_sources |-> n] : n \in Totals}
    \cup {[sources_processed |-> n, artists_processed |-> m,
           errors_count |-> k] :
            n \in SourceCounts, m \in 0..1, k \in 0..1}
    \cup {[current_step |-> st] : st \in {"Extraction", "Sauvegarde"}}
    \cup {[current_source |-> c, batch |-> 1] : c \in 0..1}

\* ProcessManager.update_progress(process_id, **kwargs)
update_progress_request(id, kw) ==
  /\ id \in DOMAIN jobs
  /\ jobs' = [jobs EXCEPT ![id] = update_progress(@, kw)]
  /\ UNCHANGED <<needs_scoring, scores, pc, response, procLocals, poolVars,
                 pendingVars, cacheVars, statusVars, scoreVars, extractVars, batchVars>>

ProgressNext ==
  \E id \in 1..MaxJobs, kw \in ProgressKwargs : update_progress_request(id, kw)

\* a phase 1 job has been started over some number of sources
ProgressStart ==
  /\ \E total \in Totals : jobs = <<NewProcess("phase1", total)>>
  /\ needs_scoring = [a \in ArtistRows |-> TRUE]
  /\ scores = [a \in ArtistRows |-> 0]
  /\ pc = [p \in Procs |-> "idle"]
  /\ response = [p \in Procs |-> "none"]
  /\ result = [p \in Procs |-> NoResult]
  /\ current_process = [p \in Procs |-> 0]
  /\ pending = [p \in Procs |-> <<>>]
  /\ bi = [p \in Procs |-> 0]
  /\ bj = [p \in Procs |-> 0]
  /\ completed_count = [p \in Procs |-> 0]
  /\ batch_completed = [p \in Procs |-> 0]
  /\ errors = [p \in Procs |-> 0]
  /\ batch_errors = [p \in Procs |-> 0]
  /\ broke = [p \in Procs |-> FALSE]
  /\ quota_break = [p \in Procs |-> FALSE]
  /\ PoolInit /\ PendingInit /\ CacheInit /\ StatusInit /\ ScoreInit
  /\ ExtractInit /\ BatchInit
  /\ mode = "LIVE" /\ cache = {} /\ redis_client = "client"

ProgressSpec == ProgressStart /\ [][ProgressNext]_vars

\* ------------------------------------ Phase1Processor, the source callback
\* min(80, int((new_sources_processed / total_sources) * 80)); the double
\* product truncates to the exact quotient for every total up to MaxSources
extraction_progress(new_sources_processed, total_sources) ==
  Min(80, (new_sources_processed * 80) \div total_sources)

\* Phase1Processor._on_source_progress, called once for each source:
\* set_current_source, then update_progress with the two fields; both go
\* through ProcessStatus.update_progress
on_source_progress_phase1(id) ==
  /\ id \in DOMAIN jobs
  /\ jobs[id].process_type = "phase1"
  /\ jobs[id].sources_processed < jobs[id].total_sources
  /\ LET new_sources_processed == jobs[id].sources_processed + 1
         named == update_progress(jobs[id],
                    [current_source |-> new_sources_processed])
         total_sources == named.total_sources
     IN jobs' = [jobs EXCEPT ![id] = update_progress(named,
          [sources_processed |-> new_sources_processed,
           progress_percentage |->
             extraction_progress(new_sources_processed, total_sources)])]
  /\ UNCHANGED <<needs_scoring, scores, pc, response, procLocals, poolVars,
                 pendingVars, cacheVars, statusVars, scoreVars, extractVars, batchVars>>

SourceProgressNext == \E id \in 1..MaxJobs : on_source_progress_phase1(id)

\* a phase 1 job has been started over the sources of the configuration
SourceProgressStart ==
  /\ \E total \in 1..MaxSources : jobs = <<NewProcess("phase1", total)>>
  /\ needs_scoring = [a \in ArtistRows |-> TRUE]
  /\ scores = [a \in ArtistRows |-> 0]
  /\ pc = [p \in Procs |-> "idle"]
  /\ response = [p \in Procs |-> "none"]
  /\ result = [p \in Procs |-> NoResult]
  /\ current_process = [p \in Procs |-> 0]
  /\ pending = [p \in Procs |-> <<>>]
  /\ bi = [p \in Procs |-> 0]
  /\ bj = [p \in Procs |-> 0]
  /\ completed_count = [p \in Procs |-> 0]
  /\ batch_completed = [p \in Procs |-> 0]
  /\ errors = [p \in Procs |-> 0]
  /\ batch_errors = [p \in Procs |-> 0]
  /\ broke = [p \in Procs |-> FALSE]
  /\ quota_break = [p \in Procs |-> FALSE]
  /\ PoolInit /\ PendingInit /\ CacheInit /\ StatusInit /\ ScoreInit
  /\ ExtractInit /\ BatchInit
  /\ mode = "LIVE" /\ cache = {} /\ redis_client = "client"

SourceProgressSpec == SourceProgressStart /\ [][SourceProgressNext]_vars

\* the job orchestrator, beside a service in its default mode (LIVE,
\* youtube_service.py line 19) whose cache directory is empty
Init ==
  /\ JobsInit /\ PoolInit /\ PendingInit /\ CacheInit /\ StatusInit /\ ScoreInit
  /\ ExtractInit /\ BatchInit
  /\ mode = "LIVE" /\ cache = {} /\ redis_client = "client"
Next == JobsNext
Spec == Init /\ [][Next]_vars

\* the extraction passes over an artists table that starts empty
PassSpec == Init /\ [][PassNext]_vars

\* the threads that ask for trends scores
TrendsSpec == Init /\ [][TrendsNext]_vars

\* the starts of the runs of every kind
FlightSpec == Init /\ [][FlightNext]_vars

\* the starts of the jobs, with processor objects that may be used again
ReuseNext ==
  \/ \E p \in Procs : resume_tubebuddy_background(p)
  \/ \E p \in Procs : run_async_check(p)
  \/ \E p \in Procs : start_process_check(p)
  \/ \E p \in Procs : start_process_insert(p)
  \/ \E p \in Procs, m \in Messages : run_async_except(p, m)
  \/ \E p \in Procs : run_async_again(p)
ReuseSpec == Init /\ [][ReuseNext]_vars

\* one YouTubeService and its callers, no job started
PoolStart ==
  /\ JobsInit /\ PoolInit /\ PendingInit /\ CacheInit /\ StatusInit /\ ScoreInit
  /\ ExtractInit /\ BatchInit
  /\ redis_client = "client"
PoolSpec == PoolStart /\ [][PoolNext]_vars

\* make_request is synchronous code: once called, its loop runs on, each
\* requests.get returning or raising
PoolFairSpec ==
  /\ PoolSpec
  /\ WF_vars(\E st \in Statuses : make_request_attempt(st))
  /\ WF_vars(make_request_give_up)

\* the calculate-pending route and the extraction that flags artists
PendingSpec == Init /\ [][PendingNext]_vars

\* the Redis cache of a ScoringService and its callers
CacheStart ==
  /\ JobsInit /\ PoolInit /\ PendingInit /\ CacheInit /\ StatusInit /\ ScoreInit
  /\ ExtractInit /\ BatchInit
  /\ mode = "LIVE" /\ cache = {}
CacheSpec == CacheStart /\ [][CacheNext]_vars

\* the process_status table and the status queries
StatusSpec == Init /\ [][StatusNext]_vars

\* the scoring formula on the signals it is given
ScoreSpecStart ==
  /\ JobsInit /\ PoolInit /\ PendingInit /\ CacheInit /\ StatusInit /\ ScoreStart
  /\ ExtractInit /\ BatchInit
  /\ mode = "LIVE" /\ cache = {} /\ redis_client = "client"
ScoreSpec == ScoreSpecStart /\ [][ScoreNext]_vars

\* the calls of the extractor, one per behaviour
ExtractSpecStart ==
  /\ JobsInit /\ PoolInit /\ PendingInit /\ CacheInit /\ StatusInit /\ ScoreInit
  /\ ExtractStart /\ BatchInit
  /\ mode = "LIVE" /\ cache = {} /\ redis_client = "client"
ExtractSpec == ExtractSpecStart /\ [][ExtractNext]_vars

\* one processor on the long list
BatchSpecStart ==
  /\ JobsInit /\ PoolInit /\ PendingInit /\ CacheInit /\ StatusInit /\ ScoreInit
  /\ ExtractInit /\ BatchStart
  /\ mode = "LIVE" /\ cache = {} /\ redis_client = "client"
BatchSpec == BatchSpecStart /\ [][BatchNext]_vars

\* one processor, of any kind
UnitsSpecStart ==
  /\ JobsInit /\ PoolInit /\ PendingInit /\ CacheInit /\ StatusInit /\ ScoreInit
  /\ ExtractInit /\ UnitsStart
  /\ mode = "LIVE" /\ cache = {} /\ redis_client = "client"
UnitsSpec == UnitsSpecStart /\ [][UnitsNext]_vars

\* ======================================================== claims, jobs
RunningRows == {id \in DOMAIN jobs : jobs[id].status = "running"}

\* C1: in every reachable state at most one process_status row has status
\* "running", whatever the interleaving of start, progress, cancel and
\* complete steps.
C1_AtMostOneRunning == Cardinality(RunningRows) <= 1

\* C2: a start request that creates no job because another one is running
\* was answered 409 (never "started") and created no row: a finished
\* request that was told "started" owns the row it created.
C2_RejectedStartIsReported ==
  \A p \in Procs :
    (pc[p] = "done" /\ response[p] = "started") => current_process[p] # 0

C4_CancelEndsCancelled ==
  \A p \in Procs :
    (pc[p] = "done" /\ broke[p]) =>
       jobs[current_process[p]].status = "cancelled"

TotalScores == LET RECURSIVE Sum(_)
                   Sum(S) == IF S = {} THEN 0
                             ELSE LET a == CHOOSE x \in S : TRUE
                                  IN scores[a] + Sum(S \ {a})
               IN Sum(Artists)

Scored(p) == completed_count[p] + batch_completed[p]

C6_ExceptionBecomesError ==
  [][\A p \in Procs :
       (pc[p] \in ExecPcs /\ pc'[p] = "done" /\ ~result'[p].success) =>
          /\ result'[p].returned
          /\ jobs'[current_process[p]].status = "error"
          /\ jobs'[current_process[p]].error_message = result'[p].error]_vars


\* ======================================================== claims, pool
Requested == mr_requests' = mr_requests + 1

C8_CacheHitTouchesNoCredential ==
  [][(mr_pc = "loop" /\ CacheKey(mr_endpoint, mr_params) \in cache) =>
        /\ ~Requested
        /\ UNCHANGED <<exhausted_keys, requests_per_key,
                       current_key_index>>]_vars

\* C9: the key that receives a 403 is flagged exhausted, whether or not
\* other keys remain; when another key remains the pointer moves to the
\* next one that is not exhausted and the call goes on; the key that
\* answers 200 is the one the pointer stays on.
C9_QuotaRejectionFlagsKey ==
  [][/\ (Requested /\ last_status' = 403) =>
           /\ last_key' \in exhausted_keys'
           /\ (exhausted_keys' # Keys =>
                 /\ current_key_index' = NextFrom(exhausted_keys', last_key')
                 /\ mr_pc' = "loop")
     /\ (Requested /\ last_status' = 200) =>
           /\ mr_result' = "response"
           /\ current_key_index' = last_key']_vars

\* C10: a call made while every key is flagged exhausted fails at once
\* with the quota error, issues no request and leaves flags, counters and
\* pointer as they were.
C10_AllExhaustedFailsFast ==
  [][(mr_pc = "idle" /\ mode = "LIVE" /\ exhausted_keys = Keys
        /\ ~reset_quota) =>
        /\ mr_result' = "quota_error" /\ mr_pc' = "idle" /\ mr_requests' = 0
        /\ UNCHANGED <<exhausted_keys, requests_per_key, current_key_index,
                       cache, last_key, last_status>>]_vars

\* a call that found every key exhausted has failed without a request
C10_Witness ==
  /\ exhausted_keys = Keys /\ mode = "LIVE"
  /\ mr_pc = "idle" /\ mr_result = "quota_error" /\ mr_requests = 0

\* C11: an attempt that fails for a non-quota reason (network exception,
\* status other than 200 and 403) flags no key, is at most the pool-size-th
\* request of its call and, while attempts and another usable key remain,
\* is followed by a retry on another key; a call in which no attempt was
\* rejected for quota (at least two keys were usable at its start and none
\* of them got flagged) does not end with the quota error.
C11_NonQuotaFailureIsUpstreamError ==
  [][/\ (Requested /\ last_status' \in {500, -1}) =>
           /\ exhausted_keys' = exhausted_keys
           /\ mr_requests' <= NKeys
           /\ (mr_attempt' < Len(mr_available)
                 /\ Keys \ (exhausted_keys \cup {last_key'}) # {}) =>
                 (mr_pc' = "loop" /\ current_key_index' # last_key')
     /\ (mr_pc = "loop" /\ mr_pc' = "idle" /\ Len(mr_available) >= 2
           /\ \A i \in DOMAIN mr_available :
                 mr_available[i] \notin exhausted_keys) =>
           mr_result' # "quota_error"]_vars

\* C12: once the scoring of an artist failed because the key pool is
\* exhausted (quota_break), the job scores no further artist, of this batch
\* or of a later one, it ends in state "error", and the scores and cleared
\* flags written before are all there (for a lone job: one score for each
\* cleared flag, as many as the artists it counted as scored).
C12_QuotaAbortsJob ==
  \A p \in Procs :
    quota_break[p] =>
      /\ pc[p] # "scoring"
      /\ pc[p] = "done" => jobs[current_process[p]].status = "error"
      /\ Len(jobs) = 1 =>
           /\ \A a \in Artists : scores[a] = IF needs_scoring[a] THEN 0 ELSE 1
           /\ pc[p] \in ExecPcs => TotalScores = Scored(p)

C14_ClearedOnlyAfterScoreWrite ==
  [][\A a \in ArtistRows :
       (needs_scoring[a] /\ ~needs_scoring'[a]) => scores'[a] = scores[a] + 1]_vars

C18_CompleteIsTerminal ==
  [][\A p \in Procs :
       (/\ pc[p] \in ExecPcs \cup {"complete"} /\ pc'[p] = "done"
        /\ jobs[current_process[p]].status = "running") =>
          LET row == jobs'[current_process[p]]
          IN /\ row.completed_at
             /\ row.progress_percentage = 100
             /\ row.status = IF result'[p].error # NoMessage
                               THEN "error" ELSE "completed"]_vars


\* what the merge of kw into row is to give: the supplied fields take the
\* supplied values, the others keep theirs, and with a positive total the
\* percentage is min(100, floor(100 * sources_processed / total_sources))
MergedProgress(row, kw) ==
  LET merged == [f \in DOMAIN row |->
                   IF f \in DOMAIN kw THEN kw[f] ELSE row[f]]
  IN IF merged.total_sources > 0
       THEN [merged EXCEPT !.progress_percentage =
               Min(100, (100 * merged.sources_processed)
                          \div merged.total_sources)]
       ELSE merged

\* C19: every change an update_progress call makes to a row is the merge
\* of some supplied fields with the percentage recomputed by the floor
\* formula, the status is left alone, and the percentage stays in 0..100.
C19_UpdateProgressMerges ==
  [][\A id \in DOMAIN jobs :
       jobs'[id] # jobs[id] =>
          /\ \E kw \in ProgressKwargs : jobs'[id] = MergedProgress(jobs[id], kw)
          /\ jobs'[id].status = jobs[id].status
          /\ jobs'[id].progress_percentage \in 0..100]_vars

\* ======================================================== claims, cache
\* C16: a put of any value under a cache type and key, followed at once by
\* a get of the same type and key (the store reachable, neither call
\* failing), returns that value; and a get never returns an entry whose
\* age has reached the TTL of its cache type.
C16_PutGetRoundTrip ==
  [][/\ (/\ cs_last.op = "put" /\ cs_last'.op = "get"
         /\ redis_client # None /\ ~cs_last.fault /\ ~cs_last'.fault
         /\ cs_last'.cache_type = cs_last.cache_type
         /\ cs_last'.identifier = cs_last.identifier) =>
           cs_last'.returned = cs_last.value
     /\ (cs_last'.op = "get" /\ cs_last'.returned # Miss) =>
           redis[yt_cache_key(cs_last'.cache_type,
                              cs_last'.identifier)].age
             < ttl_config[cs_last'.cache_type]]_vars

C21_RotationAdvances ==
  [][(/\ mode = "LIVE"
      /\ mr_pc = "loop"
      /\ exhausted_keys = {}
      /\ mr_requests' = mr_requests + 1
      /\ last_status' = -1)
       => current_key_index' = (current_key_index % NKeys) + 1]_vars

\* ===================================================== claims, scoring
\* C22: when the sample of search results is empty the scorer returns
\* without an error a competition score of 0 and an overall score that is
\* the demand term alone, 0.8 times the trends score (at most 100)
\* rounded to the nearest integer; no division by the sample size takes
\* place.
C22_EmptySampleIsDemandOnly ==
  (sc_in.op = "calculate_artist_score" /\ sc_out.returned
     /\ sc_in.search_results = <<>>) =>
    /\ ~sc_out.error
    /\ sc_out.competition_score = 0
    /\ 10 * sc_out.overall_score - 8 * sc_in.trends_score \in -5..5

C22_Witness ==
  /\ sc_in.op = "calculate_artist_score" /\ sc_out.returned
  /\ sc_in.search_results = <<>>
  /\ sc_in.trends_score = 50
  /\ sc_out.overall_score = 40

\* C23: whatever the trends score, the sample, the channel statistics and
\* the cached estimate, and also when the computation raises, the
\* overall score returned by calculate_artist_score is between 0 and 100.
C23_OverallScoreInRange ==
  (sc_in.op = "calculate_artist_score" /\ sc_out.returned) =>
    sc_out.overall_score \in 0..100

\* a sample whose blend exceeds 100 before the cap
C23_Witness ==
  /\ sc_in.op = "calculate_artist_score" /\ sc_out.returned
  /\ sc_in.search_results # <<>>
  /\ ~sc_out.error
  /\ sc_out.overall_score = 100
  /\ sc_out.search_volume_score = 100
  /\ sc_out.optimization_score = 100

BandRank(category) ==
  CASE category = "Très faible" -> 1
    [] category = "Faible" -> 2
    [] category = "Moyen" -> 3
    [] category = "Très bon" -> 4
    [] category = "Excellent" -> 5

\* C24: the interpretation of a score is "Excellent" from 80, "Très bon"
\* from 65 to below 80, "Moyen" from 50 to below 65, "Faible" from 30 to
\* below 50 and "Très faible" below 30, and no lower score gets a better
\* band.
C24_FiveBands ==
  (sc_in.op = "get_score_interpretation" /\ sc_out.returned) =>
    LET score == sc_in.score
        category == sc_out.category
    IN /\ category = "Excellent" <=> score >= 8000
       /\ category = "Très bon" <=> (6500 <= score /\ score < 8000)
       /\ category = "Moyen" <=> (5000 <= score /\ score < 6500)
       /\ category = "Faible" <=> (3000 <= score /\ score < 5000)
       /\ category = "Très faible" <=> score < 3000
       /\ \A lower \in InterpretedScores :
            lower <= score =>
              BandRank(get_score_interpretation(lower)) <= BandRank(category)

C24_Witness ==
  /\ sc_in.op = "get_score_interpretation" /\ sc_out.returned
  /\ sc_in.score = 6500
  /\ sc_out.category = "Très bon"

\* the samples that differ from sr only by their channels, with fewer
\* unique channels, the statistics of the channel of each result being
\* the same
MoreConcentrated(sr, channel_stats_cache) ==
  {other \in Samples :
     /\ Len(other) = Len(sr)
     /\ \A i \in DOMAIN sr :
          /\ other[i].age = sr[i].age
          /\ other[i].snippet = sr[i].snippet
          /\ channel_stats_cache[other[i].channelId]
               = channel_stats_cache[sr[i].channelId]
     /\ Cardinality({other[i].channelId : i \in DOMAIN other})
          < Cardinality({sr[i].channelId : i \in DOMAIN sr})}

CompetitionIntensity(sr, channel_stats_cache, cached_count) ==
  calculate_competition_tubebuddy_formula(
    sr, channel_stats_cache, estimate_total_video_count(sr, cached_count))

C28_MakeRequestTerminates ==
  /\ [][/\ (mr_pc = "idle" /\ mr_pc' = "loop") =>
             /\ Len(mr_available') = Cardinality(Keys \ exhausted_keys)
             /\ mr_requests' = 0
        /\ mr_pc = "loop" =>
             /\ mr_available' = mr_available
             /\ mr_requests' <= Len(mr_available)
             /\ mr_requests' <= mr_attempt'
             /\ \/ mr_attempt' = mr_attempt + 1
                \/ mr_pc' = "idle"
             /\ mr_pc' = "idle" =>
                  mr_result' \in {"response", "None", "quota_error"}]_vars
  /\ (mr_pc = "loop") ~> (mr_pc = "idle")

C28_Witness ==
  /\ mr_pc = "idle"
  /\ mr_result = "quota_error"
  /\ Len(mr_available) = 2
  /\ mr_requests = 2
  /\ exhausted_keys # {}

\* ======================================================= claims, batches
\* C29: a failure of the scoring of one artist that is not a quota failure
\* is caught: it adds one message to the errors and the next artist of the
\* batch is taken; the errors count every failure; the result of the job
\* keeps the first 10 messages at most, and its errors_count is the number
\* of all failures.
C29_EntityFailureIsContained ==
  /\ [][(tb.pc = "entity_poll" /\ tb'.attempted = tb.attempted + 1
           /\ tb'.outcome \in {"error", "raise"}) =>
          /\ tb'.batch_errors
               = Append(tb.batch_errors, LongList[tb.i + tb.j + 1])
          /\ tb'.pc = "entity_poll"
          /\ tb'.j = tb.j + 1]_vars
  /\ [](Len(tb.errors) + Len(tb.batch_errors)
          = tb.attempted - tb.completed_count - tb.batch_completed)
  /\ [](tb.pc = "returned" =>
          /\ (~tb.cancelled /\ ~tb.quota_break) => tb.attempted = MaxEntities
          /\ tb.result.errors_count = tb.attempted - tb.completed_count
          /\ Len(tb.result.errors) <= 10
          /\ tb.result.errors
               = SubSeq(tb.errors, 1, Len(tb.result.errors))
          /\ Len(tb.result.errors) < 10 =>
               Len(tb.result.errors) = tb.result.errors_count)

C29_Witness ==
  /\ tb.pc = "returned"
  /\ tb.result.errors_count = 11
  /\ Len(tb.result.errors) = 10
  /\ tb.outcome = "raise"

\* C30: every processor reads the cancel flag before it starts a source (a
\* batch, for the scoring) and before it starts an entity: no source and
\* no entity is started once the cancellation is recorded.
C30_CancelPolledBeforeEachUnit ==
  [][/\ (tb.pc = "batch_poll" /\ tb'.pc = "entity_poll") => ~tb.cancelled
     /\ tb'.attempted = tb.attempted + 1 => ~tb.cancelled
     /\ ph'.sources_started = ph.sources_started + 1 => ~ph.cancelled
     /\ ph'.artists_started = ph.artists_started + 1 => ~ph.cancelled]_vars

\* ====================================================== claims, counters
\* C35: an upstream request answered with 200 adds exactly one to the
\* counter of the key that served it and to total_requests; every other
\* step (a rejected or failed request, a call served from the cache, a
\* rotation, a reset) leaves every counter and total_requests unchanged.
C35_CounterCountsSuccesses ==
  [][LET before == get_quota_usage(requests_per_key, current_key_index)
         after == get_quota_usage(requests_per_key', current_key_index')
     IN IF Requested /\ last_status' = 200
          THEN /\ requests_per_key' =
                    [requests_per_key EXCEPT ![last_key'] = @ + 1]
               /\ after.total_requests = before.total_requests + 1
          ELSE /\ requests_per_key' = requests_per_key
               /\ after.total_requests = before.total_requests]_vars

C35_Witness ==
  /\ requests_per_key[1] = 1
  /\ requests_per_key[2] = 1
  /\ 1 \in exhausted_keys
  /\ last_status = 200
  /\ get_quota_usage(requests_per_key, current_key_index).total_requests = 2

\* ========================================================= claims, starts
\* C37: a start attempt that fails changes no row of the jobs: when
\* run_async ends at its check or at the check of start_process, every
\* row is as it was, also for a processor object that has run a job.
C37_FailedStartChangesNoRow ==
  [][\A p \in Procs :
       (pc[p] \in {"queued", "starting"} /\ pc'[p] = "done") =>
         jobs' = jobs]_vars

\* the background runs that are at work: the processors between the
\* insertion of their row and the end of run_async, and the queued tasks
\* of the other routes
ActiveRuns ==
  Cardinality({p \in Procs : pc[p] \in ExecPcs \cup {"complete"}})
    + Cardinality({r \in BackgroundRoutes : background[r].active})

\* C33: at most one background extraction or scoring run is active at a
\* time, whatever route launched it.
C33_OneBackgroundRun == ActiveRuns <= 1

\* C34: the requests to the trends provider are made under the lock, and
\* two consecutive requests, whatever thread and method made them and
\* whether the first failed or not, are at least the minimum delay apart.
C34_ProviderRequestsSpaced ==
  /\ trends.provider_gap # NoRequest =>
       trends.provider_gap >= min_delay_between_requests
  /\ [][trends'.provider_last # trends.provider_last =>
          \E t \in Threads : trends.call[t] = "locked"]_vars

\* C36: while the sources of a Phase 1 job are extracted, the reported
\* progress_percentage is never above 80: each source callback leaves
\* min(80, floor(80 * sources_processed / total_sources)) in the row.
C36_ExtractionProgressCapped ==
  /\ \A id \in DOMAIN jobs : jobs[id].progress_percentage <= 80
  /\ [][\A id \in DOMAIN jobs :
          jobs'[id] # jobs[id] =>
            jobs'[id].progress_percentage =
              Min(80, (80 * jobs'[id].sources_processed)
                        \div jobs'[id].total_sources)]_vars

\* ======================================================= claims, records
\* the score records that the run has persisted
RecordsPersisted == Cardinality({a \in 1..MaxEntities : tb.records[a] > 0})

Treated == Len(xp'.unique_artists) < Len(xp.unique_artists)

\* C31: over the extraction passes the most_recent_appearance of an artist
\* never goes down, it is the latest date of the source items in which
\* the artist was observed, and needs_scoring is set whenever a pass
\* observes an appearance later than the stored one.
C31_AppearanceIsLatestObserved ==
  /\ [][\A r \in DOMAIN xp.rows :
          xp'.rows[r].most_recent_appearance
            >= xp.rows[r].most_recent_appearance]_vars
  /\ [](\A r \in DOMAIN xp.rows :
          xp.rows[r].most_recent_appearance = xp.rows[r].seen)
  /\ [][\A r \in DOMAIN xp.rows :
          (Treated /\ xp'.rows[r].seen > xp.rows[r].most_recent_appearance)
            => xp'.rows[r].needs_scoring]_vars

\* C32: a candidate is mapped to an existing artist only if the two names
\* are equal up to case; a candidate whose name differs from the name of
\* every artist creates a new artist; a pass over names that were already
\* treated creates no duplicate.
C32_NamesMatchUpToCase ==
  /\ [][(Treated /\ xp'.last.existing # 0) =>
          LowerTokens(xp.rows[xp'.last.existing].name)
            = LowerTokens(xp'.last.name)]_vars
  /\ [][(Treated /\ \A r \in DOMAIN xp.rows :
                      LowerTokens(xp.rows[r].name)
                        # LowerTokens(xp'.last.name))
          => (xp'.last.existing = 0
              /\ (xp'.last.created => Len(xp'.rows) = Len(xp.rows) + 1))]_vars
  /\ [](\A r1, r2 \in DOMAIN xp.rows :
          r1 # r2 => LowerTokens(xp.rows[r1].name)
                       # LowerTokens(xp.rows[r2].name))

\* =================================================== claims, extraction
LilBabyTitle ==
  <<"Lil", "Baby", "&", "Gunna", "-", "Drip", "Too", "Hard",
    "(", "feat.", "Future", ")">>

\* C26: the names extracted from the title
\* "Lil Baby & Gunna - Drip Too Hard (feat. Future)" are exactly
\* Lil Baby, Gunna and Future.
C26_LilBabyGunnaFuture ==
  (ex_artists.returned /\ ex_title = LilBabyTitle)
    => ex_artists.names = {<<"Lil", "Baby">>, <<"Gunna">>, <<"Future">>}

C26_Witness ==
  /\ ex_artists.returned
  /\ ex_title = LilBabyTitle
  /\ Cardinality(ex_artists.names) = 3

\* the validation of a name as it is returned
ValidationGate(name) ==
  LET lower == LowerTokens(name)
  IN /\ Len(NameText(name)) >= 2
     /\ Len(NameText(name)) <= 60
     /\ WordCount(name) <= 4
     /\ ~(Len(name) = 1 /\ name[1] \in Digits)
     /\ NameText(lower) \notin exclude_keywords
     /\ \A phrase \in exclude_phrases : ~ContainsPhrase(lower, phrase)
     /\ Len(name) >= 2 =>
          /\ lower[1] \notin {"feat", "ft", "with", "and", "x"}
          /\ lower[Len(name)] \notin {"feat", "ft", "with", "and", "x"}

\* C27: every name that the extraction returns passes the validation in
\* the form in which it is returned: 2 to 60 characters, at most 4 words,
\* not a number, not a noise word, without a noise phrase, and without
\* feat, ft, with, and, x as its first or last word.
C27_ReturnedNamesAreValid ==
  ex_artists.returned => \A name \in ex_artists.names : ValidationGate(name)

====
